---- MODULE Spec2Model ----
(***************************************************************************)
(* Model of the medical-chatbot Flask application (app.py,                 *)
(* src/rag_advanced.py, src/database.py): the relational store, the        *)
(* Pinecone index, the upload folder, the chat-stream generator, the       *)
(* document endpoints and the feedback endpoint.                          *)
(*                                                                         *)
(* Text is modelled as a sequence of one-character strings.  Python's None *)
(* in passage metadata is the string NoneVal; a NULL foreign key and a     *)
(* missing/falsy id in a request are NULL (ids start at 1).                *)
(***************************************************************************)
EXTENDS Integers, Sequences, FiniteSets, TLC

\* ------------------------------------------------------------------ bounds
\* Most passages one similarity search returns in the model (the code's k is
\* BaseK / UserK; a search returns at most Min(k, MaxHits) passages).
MaxHits == 1
\* Longest sub-question list the classification call returns.
MaxSubQ == 3
\* Number of in-flight submit_feedback requests.
MaxReqs == 2
\* Most chunks text_split produces for one uploaded PDF.
MaxChunks == 2
\* Most uploads accepted in one behaviour.
MaxUploads == 1
\* Largest absolute value of the max_hops argument of multi_hop_reasoning.
MaxHopsArg == 3
\* Longest answer text of the generation call, in characters.
MaxAnswerLen == 4

\* Passages one search returns when the merge of the two searches is examined
MaxMergeHits == 2

\* Pages of an uploaded PDF when the steps of upload_document are examined
MaxPages == 2

\* Chat requests accepted one after another when sequences of turns are examined
MaxTurns == 2

\* ------------------------------------------------------- program constants
BaseK == 5
UserK == 8
max_hops == 2
NULL == 0

Users == {1, 2}
NoneVal == "<None>"

\* ------------------------------------------------------------------- state
VARIABLES
    conversations,  \* committed rows [id, user_id]
    messages,       \* committed rows [id, conversation_id, role, content]
    documents,      \* committed rows [id, user_id, file_path, is_indexed]
    chunks,         \* committed rows [id, document_id, chunk_index, page_number]
    citations,      \* committed rows [id, message_id, document_id, chunk_id, page_number]
    feedbacks,      \* committed rows [id, user_id, message_id, rating, comment]
    seq,            \* per-table primary-key sequences (last value handed out)
    index,          \* Pinecone vectors [vid, user_id, document_id, source, page]
    files,          \* paths present in the upload folder
    turn,           \* the chat turn: request fields, generator position, stream
    fbreqs,         \* in-flight submit_feedback requests
    response,       \* the last HTTP response sent
    pending,        \* rows of db.session's open transaction, not committed
    log,            \* what the last document request printed about failed steps
    docreq          \* the document request that is under way, with its locals

vars == <<conversations, messages, documents, chunks, citations, feedbacks,
          seq, index, files, turn, fbreqs, response, pending, log, docreq>>

ReqIds == 1..MaxReqs

\* db.session with nothing added or flushed since the last commit or rollback
NoPending == [messages |-> {}, citations |-> {}]

\* ------------------------------------------------------------ text helpers
Min(a, b) == IF a < b THEN a ELSE b

\* str(int)
Str(n) == ToString(n)

\* str.isspace() on the characters the model uses
IsSpace(c) == c \in {" ", "\n"}

RECURSIVE LStrip(_)
LStrip(s) == IF s # <<>> /\ IsSpace(Head(s)) THEN LStrip(Tail(s)) ELSE s

RECURSIVE RStrip(_)
RStrip(s) ==
    IF s # <<>> /\ IsSpace(s[Len(s)]) THEN RStrip(SubSeq(s, 1, Len(s) - 1)) ELSE s

\* str.strip()
Strip(s) == LStrip(RStrip(s))

\* str.split(): the maximal runs of non-whitespace characters, in order
RECURSIVE SplitFrom(_, _, _)
SplitFrom(s, i, cur) ==
    IF i > Len(s) THEN (IF cur = <<>> THEN <<>> ELSE <<cur>>)
    ELSE IF IsSpace(s[i])
         THEN (IF cur = <<>> THEN <<>> ELSE <<cur>>) \o SplitFrom(s, i + 1, <<>>)
         ELSE SplitFrom(s, i + 1, Append(cur, s[i]))

Split(s) == SplitFrom(s, 1, <<>>)

\* str.lower() on the characters the model uses
LowerChar(c) ==
    CASE c = "P" -> "p"
      [] c = "D" -> "d"
      [] c = "F" -> "f"
      [] c = "A" -> "a"
      [] OTHER -> c

Lower(s) == [i \in 1..Len(s) |-> LowerChar(s[i])]

\* str.endswith(suffix)
EndsWith(s, suffix) ==
    /\ Len(s) >= Len(suffix)
    /\ SubSeq(s, Len(s) - Len(suffix) + 1, Len(s)) = suffix

\* All sequences of distinct elements of S of length at most n
DistinctSeqs(S, n) ==
    UNION {{s \in [1..m -> S] : \A i, j \in 1..m : i # j => s[i] # s[j]} : m \in 0..n}


\* ---------------------------------------------------------------- requests
UserMessages == {<<>>, <<"h", "i">>}

\* request.get_json() of POST /api/chat/stream; has_data = FALSE is a missing
\* or empty body, conversation_id = NULL a missing or falsy conversation_id
ChatBodies ==
    [has_data : BOOLEAN, message : UserMessages,
     conversation_id : {NULL, 1, 2, 9}, use_advanced_rag : BOOLEAN]

\* ------------------------------------------------------- external services
\* Text the rewriting call may return
RewriteOutputs == {<<" ", "r", "q", " ">>}

\* Text a generation or synthesis call may return
Answers == {<<"a", " ", " ", "b">>, <<>>}

SubQuestionPool == <<<<"s", "1">>, <<"s", "2">>, <<"s", "3">>, <<"s", "4">>, <<"s", "5">>>>

\* Text the classification call may return: a prefix, and after it either
\* free text or JSON: an array of sub-questions, text that does not parse,
\* or a JSON object
AnalysisOutputs ==
    [prefix : {"DIRECT:", ""}, json : {"text"}, text : {<<" ", "d", " ">>}, items : {<<>>}]
    \cup [prefix : {"MULTI_HOP:"}, json : {"list"}, text : {<<>>},
          items : {SubSeq(SubQuestionPool, 1, n) : n \in 0..MaxSubQ}]
    \cup [prefix : {"MULTI_HOP:"}, json : {"invalid"}, text : {<<"[">>}, items : {<<>>}]
    \cup [prefix : {"MULTI_HOP:"}, json : {"object"}, text : {<<>>}, items : {<<>>}]

ParseFailureAnswer == <<"U", "n", "a", "b", "l", "e">>

\* All texts of at most n characters of the alphabet S
Texts(S, n) == UNION {[1..m -> S] : m \in 0..n}

\* a parse failure taken for an empty list of sub-questions
analyze_query_complexity_empty_list(result) ==
    IF result.prefix = "DIRECT:"
    THEN [type |-> "direct", answer |-> Strip(result.text), sub_questions |-> <<>>,
          shape |-> NoneVal]
    ELSE IF result.prefix = "MULTI_HOP:"
    THEN [type |-> "multi_hop", answer |-> <<>>, sub_questions |-> result.items,
          shape |-> IF result.json = "invalid" THEN "list" ELSE result.json]
    ELSE [type |-> "direct", answer |-> result.text, sub_questions |-> <<>>,
          shape |-> NoneVal]

\* src/rag_advanced.py analyze_query_complexity, after the model call: the
\* value json.loads returned is the sub_questions whatever it is, and shape
\* records what it is
analyze_query_complexity(result) ==
    IF result.prefix = "DIRECT:"
    THEN [type |-> "direct", answer |-> Strip(result.text), sub_questions |-> <<>>,
          shape |-> NoneVal]
    ELSE IF result.prefix = "MULTI_HOP:"
    THEN IF result.json # "invalid"
         THEN [type |-> "multi_hop", answer |-> <<>>, sub_questions |-> result.items,
               shape |-> result.json]
         ELSE [type |-> "direct", answer |-> ParseFailureAnswer, sub_questions |-> <<>>,
               shape |-> NoneVal]
    ELSE [type |-> "direct", answer |-> result.text, sub_questions |-> <<>>,
          shape |-> NoneVal]

\* A similarity search of the index: at most k passages, each at most once,
\* in the order of the store's ranking; user_filter = NoneVal is no filter
Search(user_filter, k) ==
    DistinctSeqs({p \in index : user_filter = NoneVal \/ p.user_id = user_filter},
                 Min(k, MaxHits))

\* a filter that lets the passages of every user through
allowed_user_ids_everyone(user_id) == {Str(u) : u \in Users} \cup {"global", NoneVal}

\* app.py chat_stream.generate: allowed_user_ids
allowed_user_ids(user_id) == {Str(user_id), "global", NoneVal}

\* filter_allowed without its test of the owner tag
filter_allowed_keeps_all(docs, user_id) == docs

\* app.py chat_stream.generate.filter_allowed
filter_allowed(docs, user_id) ==
    SelectSeq(docs, LAMBDA d : d.user_id \in allowed_user_ids(user_id))

\* a merge that puts the user-scoped results first
MergeRetrieved_user_first(base_docs, user_docs_res, user_id) ==
    filter_allowed(user_docs_res, user_id) \o filter_allowed(base_docs, user_id)

\* app.py chat_stream.generate: the merge of the two searches (filtered_retrieve
\* in the advanced path, lines 300-309 in the simple path)
MergeRetrieved(base_docs, user_docs_res, user_id) ==
    filter_allowed(base_docs, user_id) \o filter_allowed(user_docs_res, user_id)

\* The user-scoped searches a retrieval round can see: none without a user
\* retriever
UserSearch(user_id, user_retriever) ==
    IF user_retriever THEN Search(Str(user_id), UserK) ELSE {<<>>}

\* a retrieval round that makes its global search a second time
RetrieveCalls_retried(query, user_retriever) ==
    <<[op |-> "base_search", query |-> query], [op |-> "base_search", query |-> query]>>
    \o (IF user_retriever THEN <<[op |-> "user_search", query |-> query]>> ELSE <<>>)

\* The external calls of one retrieval round
RetrieveCalls(query, user_retriever) ==
    <<[op |-> "base_search", query |-> query]>>
    \o (IF user_retriever THEN <<[op |-> "user_search", query |-> query]>> ELSE <<>>)

IdleReq ==
    [pc |-> "idle", user_id |-> NULL, message_id |-> NULL, rating |-> NoneVal,
     comment |-> <<>>, existing |-> NULL]

\* No document request under way.  documents, filtered_docs and text_chunks
\* are the locals of upload_document, nullified the Citations delete_document
\* has set to NULL in its session
IdleDocReq ==
    [op |-> "none", pc |-> "idle", user |-> NULL, doc_id |-> NULL, file_path |-> "",
     documents |-> <<>>, filtered_docs |-> <<>>, text_chunks |-> <<>>,
     first_chunk |-> NULL, nullified |-> {}]

\* ---------------------------------------------------------------- chat turn
\* No classification call made yet: its output and what
\* analyze_query_complexity made of it
NoResult == [prefix |-> NoneVal, json |-> NoneVal, text |-> <<>>, items |-> <<>>]

NoAnalysis ==
    [type |-> NoneVal, answer |-> <<>>, sub_questions |-> <<>>, shape |-> NoneVal]

\* The turn before a request: max_hops is the argument of app.py line 294;
\* base_docs and user_docs_res are the results of the two searches of a
\* retrieval round as the searches returned them
IdleTurn ==
    [pc |-> "idle", user_id |-> NULL, conversation_id |-> NULL,
     use_advanced_rag |-> FALSE, user_message |-> <<>>, user_retriever |-> FALSE,
     rewritten_query |-> <<>>, retrieved_docs |-> <<>>, sub_questions |-> <<>>,
     hop |-> 0, reasoning_chain |-> <<>>, answer |-> <<>>, events |-> <<>>,
     calls |-> <<>>, assistant_msg |-> NULL, new_conversation |-> FALSE,
     raised |-> NoneVal, max_hops |-> max_hops, initial_docs |-> <<>>,
     result |-> NoResult, analysis |-> NoAnalysis, context_popped |-> FALSE,
     base_docs |-> <<>>, user_docs_res |-> <<>>]

\* An HTTP response, with the request it answers: op is the endpoint, id the
\* id in the URL or body (NULL if none), request the rest of the request
Reply(op, user, status, id, request) ==
    [op |-> op, user |-> user, status |-> status, id |-> id, request |-> request,
     error |-> "", data |-> <<>>]

\* jsonify({"error": text}), status
Refusal(op, user, status, id, request, text) ==
    [Reply(op, user, status, id, request) EXCEPT !.error = text]

\* a Conversation created for a fixed account instead of the requesting user
NewConversation_fixed_owner(cid, u) == [id |-> cid, user_id |-> 1]

NoResponse == Reply("none", NULL, NULL, NULL, <<>>)

\* app.py line 237: Conversation(user_id=current_user.id)
NewConversation(cid, u) == [id |-> cid, user_id |-> u]

\* a lookup of the conversation by id alone
OwnsConversation_any_user(u, cid) == \E c \in conversations : c.id = cid

\* app.py lines 232-233 and 438-439:
\* Conversation.query.filter_by(id=conversation_id, user_id=current_user.id)
OwnsConversation(u, cid) ==
    \E c \in conversations : c.id = cid /\ c.user_id = u

\* app.py chat_stream, lines 221-250 and 403: the request handler up to the
\* streaming response.  db_fail names the commit that raises, if any.  A
\* request that gets no stream leaves the turn "refused".
ChatStream(u, body, db_fail) ==
    /\ turn.pc = "idle"
    /\ UNCHANGED <<documents, chunks, citations, feedbacks, index, files, fbreqs,
                   pending, log, docreq>>
    /\ IF ~body.has_data \/ body.message = <<>>
       THEN /\ db_fail = "none"
            /\ response' = Refusal("chat_stream", u, 400, body.conversation_id, body,
                                   IF ~body.has_data THEN "No data provided"
                                   ELSE "Message is required")
            /\ turn' = [turn EXCEPT !.pc = "refused"]
            /\ UNCHANGED <<conversations, messages, seq>>
       ELSE IF body.conversation_id # NULL
               /\ ~OwnsConversation(u, body.conversation_id)
       THEN /\ db_fail = "none"
            /\ response' = Refusal("chat_stream", u, 404, body.conversation_id, body,
                                   "Conversation not found")
            /\ turn' = [turn EXCEPT !.pc = "refused"]
            /\ UNCHANGED <<conversations, messages, seq>>
       ELSE LET fresh == body.conversation_id = NULL
                cid == IF fresh THEN seq.conversations + 1 ELSE body.conversation_id
                mid == seq.messages + 1
            IN  IF fresh /\ db_fail = "conversation"
                THEN /\ response' = Reply("chat_stream", u, 500, body.conversation_id, body)
                     /\ turn' = [turn EXCEPT !.pc = "refused"]
                     /\ UNCHANGED <<conversations, messages, seq>>
                ELSE /\ db_fail \in {"none", "message"}
                     /\ conversations' =
                            IF fresh
                            THEN conversations \cup {NewConversation(cid, u)}
                            ELSE conversations
                     /\ IF db_fail = "message"
                        THEN /\ response' = Reply("chat_stream", u, 500, body.conversation_id, body)
                             /\ seq' = [seq EXCEPT !.conversations =
                                            IF fresh THEN cid ELSE @]
                             /\ turn' = [turn EXCEPT !.pc = "refused"]
                             /\ UNCHANGED messages
                        ELSE /\ messages' = messages \cup
                                    {[id |-> mid, conversation_id |-> cid,
                                      role |-> "user", content |-> body.message]}
                             /\ seq' = [seq EXCEPT
                                            !.conversations = IF fresh THEN cid ELSE @,
                                            !.messages = mid]
                             /\ response' = Reply("chat_stream", u, 200, body.conversation_id, body)
                             /\ turn' = [IdleTurn EXCEPT
                                            !.pc = "start",
                                            !.user_id = u,
                                            !.conversation_id = cid,
                                            !.use_advanced_rag = body.use_advanced_rag,
                                            !.user_message = body.message,
                                            !.new_conversation = fresh]

Emit(t, event) == [t EXCEPT !.events = Append(@, event)]

\* app.py chat_stream.generate, lines 396-401: the except clause
\* an except clause that reports the error and lets the generator go on
Raise_goes_on(t, op) == [Emit(t, [type |-> "error"]) EXCEPT !.raised = op]

\* catching an exception that op raised
Raise(t, op) == [Emit(t, [type |-> "error"]) EXCEPT !.pc = "closed", !.raised = op]

GenFrame == UNCHANGED <<conversations, messages, documents, chunks, citations,
                        feedbacks, seq, index, files, fbreqs, response, pending, log, docreq>>

\* a generator that starts without its heartbeat
Heartbeat_silent ==
    /\ turn.pc = "start"
    /\ turn' = [turn EXCEPT !.pc = "prepare"]
    /\ GenFrame

\* line 254
Heartbeat ==
    /\ turn.pc = "start"
    /\ turn' = [Emit(turn, [type |-> "heartbeat"]) EXCEPT !.pc = "prepare"]
    /\ GenFrame

\* lines 256-268: the user-scoped retriever exists iff the user has an indexed
\* Document
PrepareRetrievers(fails) ==
    /\ turn.pc = "prepare"
    /\ turn' = IF fails THEN Raise(turn, "prepare")
               ELSE [turn EXCEPT
                        !.pc = "rewrite",
                        !.user_retriever =
                            \E d \in documents :
                                d.user_id = turn.user_id /\ d.is_indexed]
    /\ GenFrame

\* src/rag_advanced.py rewrite_query (called at app.py line 298 in the simple
\* path and at rag_advanced.py line 99 in the advanced path)
rewrite_query(t, out) ==
    [t EXCEPT !.rewritten_query = Strip(out), !.pc = "retrieve"]

\* a rewrite failure swallowed, the turn going on with the original query
RewriteRaises_falls_back(t) ==
    [t EXCEPT !.rewritten_query = t.user_message, !.pc = "retrieve",
              !.raised = "rewrite"]

\* rewrite_query has no handler of its own and neither has its caller: the
\* exception of the model call reaches the except clause of generate
RewriteRaises(t) == Raise(t, "rewrite")

Rewrite ==
    /\ turn.pc = "rewrite"
    /\ LET called == [turn EXCEPT !.calls =
                         Append(@, [op |-> "rewrite", query |-> turn.user_message])]
       IN  \/ \E out \in RewriteOutputs : turn' = rewrite_query(called, out)
           \/ turn' = RewriteRaises(called)
    /\ GenFrame


\* One retrieval round that returns: b is what base_retriever.invoke returned
\* and u what user_retriever.invoke returned (app.py lines 283-287 and
\* 302-309)
RetrieveRound(t, query, b, u) ==
    [t EXCEPT !.retrieved_docs = @ \o MergeRetrieved(b, u, t.user_id),
              !.calls = @ \o RetrieveCalls(query, t.user_retriever)]

\* The outcomes of one retrieval round that returns: the global search, then
\* the user-scoped search if there is a user retriever, each filtered, appended
\* to the passages retrieved so far
RetrieveOutcomes(t, query) ==
    {RetrieveRound(t, query, b, u) :
        b \in Search(NoneVal, BaseK), u \in UserSearch(t.user_id, t.user_retriever)}

\* The outcomes of one retrieval round in which a search raises
RetrieveFailures(t, query) ==
    {Raise([t EXCEPT !.calls = Append(@, [op |-> "base_search", query |-> query])],
           "base_search")}
    \cup (IF t.user_retriever
          THEN {Raise([t EXCEPT !.calls = @ \o RetrieveCalls(query, TRUE)],
                      "user_search")}
          ELSE {})

\* app.py lines 300-309 (simple path); rag_advanced.py lines 101-102 through
\* filtered_retrieve, app.py lines 281-291 (advanced path)
InitialRetrieveFrom(outcomes) ==
    /\ turn.pc = "retrieve"
    /\ \/ \E t \in outcomes :
            turn' = [t EXCEPT
                        !.pc = IF turn.use_advanced_rag THEN "analyze" ELSE "generate",
                        !.initial_docs = t.retrieved_docs,
                        !.reasoning_chain = <<turn.rewritten_query>>]
       \/ \E t \in RetrieveFailures(turn, turn.rewritten_query) : turn' = t
    /\ GenFrame

InitialRetrieve == InitialRetrieveFrom(RetrieveOutcomes(turn, turn.rewritten_query))

\* Python's s[:n]: the first n items, or all but the last -n when n < 0
SliceTo(s, n) ==
    IF n >= 0 THEN SubSeq(s, 1, Min(n, Len(s)))
    ELSE SubSeq(s, 1, IF Len(s) + n > 0 THEN Len(s) + n ELSE 0)

\* rag_advanced.py line 116: analysis["sub_questions"][:max_hops]
HopSlice(t) == SliceTo(t.sub_questions, t.max_hops)

\* a direct classification that goes on to the synthesis call
AfterAnalysis_synthesizes(t, analysis) ==
    [t EXCEPT !.analysis = analysis, !.sub_questions = analysis.sub_questions,
              !.pc = "synth"]

\* rag_advanced.py lines 106-116: a direct classification returns its answer
\* with the initial retrieval; otherwise the loop over the sub-questions
\* starts, and the slice of line 116 raises when sub_questions is a value
\* that cannot be sliced
AfterAnalysis(t, analysis) ==
    IF analysis.type = "direct"
    THEN [t EXCEPT !.analysis = analysis, !.answer = analysis.answer, !.pc = "tokens"]
    ELSE IF analysis.shape # "list"
    THEN Raise([t EXCEPT !.analysis = analysis], "slice")
    ELSE LET t1 == [t EXCEPT !.analysis = analysis,
                            !.sub_questions = analysis.sub_questions,
                            !.hop = 0]
         IN  [t1 EXCEPT !.pc = IF Len(HopSlice(t1)) > 0 THEN "hop" ELSE "synth"]

\* rag_advanced.py lines 104-114: the classification call and the branch on it
Analyze ==
    /\ turn.pc = "analyze"
    /\ LET called == [turn EXCEPT !.calls =
                         Append(@, [op |-> "analyze", query |-> turn.rewritten_query])]
       IN  \/ \E out \in AnalysisOutputs :
                turn' = AfterAnalysis([called EXCEPT !.result = out],
                                      analyze_query_complexity(out))
           \/ turn' = Raise(called, "analyze")
    /\ GenFrame

\* a loop that never leaves for the synthesis call
AfterHop_stays(t, i) == "hop"

\* rag_advanced.py lines 116 and 121-122: the loop ends with the slice or at
\* the break
AfterHop(t, i) ==
    IF i >= t.max_hops - 1 \/ i + 1 >= Len(HopSlice(t)) THEN "synth" ELSE "hop"

\* rag_advanced.py lines 116-122: one iteration of the loop over
\* sub_questions[:max_hops]; turn.hop is the loop index i
Hop ==
    /\ turn.pc = "hop"
    /\ turn.hop < Len(HopSlice(turn))
    /\ LET i == turn.hop
           sub_question == HopSlice(turn)[i + 1]
       IN  \/ \E t \in RetrieveOutcomes(turn, sub_question) :
                turn' = [t EXCEPT
                            !.reasoning_chain = Append(@, sub_question),
                            !.hop = i + 1,
                            !.pc = AfterHop(turn, i)]
           \/ \E t \in RetrieveFailures(turn, sub_question) : turn' = t
    /\ GenFrame

\* rag_advanced.py lines 124-144: the synthesis call
Synthesize ==
    /\ turn.pc = "synth"
    /\ LET called == [turn EXCEPT !.calls =
                         Append(@, [op |-> "synthesize", query |-> turn.user_message])]
       IN  \/ \E a \in Answers : turn' = [called EXCEPT !.answer = a, !.pc = "tokens"]
           \/ turn' = Raise(called, "synthesize")
    /\ GenFrame

\* app.py lines 317-336: the generation call of the simple path
Generate ==
    /\ turn.pc = "generate"
    /\ LET called == [turn EXCEPT !.calls =
                         Append(@, [op |-> "generate", query |-> turn.user_message])]
       IN  \/ \E a \in Answers : turn' = [called EXCEPT !.answer = a, !.pc = "tokens"]
           \/ turn' = Raise(called, "generate")
    /\ GenFrame

\* token events that carry the bare word
TokenEvents_bare_words(answer) ==
    LET words == Split(answer)
    IN  [i \in 1..Len(words) |-> [type |-> "token", content |-> words[i]]]

\* app.py lines 338-342: one token event per word of answer.split()
TokenEvents(answer) ==
    LET words == Split(answer)
    IN  [i \in 1..Len(words) |-> [type |-> "token", content |-> Append(words[i], " ")]]

RECURSIVE Concat(_)
Concat(ss) == IF ss = <<>> THEN <<>> ELSE Head(ss) \o Concat(Tail(ss))

\* app.py lines 339-341: full_answer after the loop
full_answer(answer) ==
    LET evs == TokenEvents(answer)
    IN  Concat([i \in 1..Len(evs) |-> evs[i].content])

EmitTokens ==
    /\ turn.pc = "tokens"
    /\ turn' = [turn EXCEPT !.events = @ \o TokenEvents(turn.answer), !.pc = "persist"]
    /\ GenFrame

\* a Citation that never looks for the Document of its passage
Resolve_unresolved(doc) == {[document_id |-> NULL, chunk_id |-> NULL]}

\* app.py lines 353-367: the Document and DocumentChunk a passage resolves to
\* (.first() is any matching row)
Resolve(doc) ==
    LET ds == {d \in documents : d.file_path = doc.source}
    IN  IF ds = {}
        THEN {[document_id |-> NULL, chunk_id |-> NULL]}
        ELSE UNION {
               LET cs == {c \in chunks :
                             c.document_id = d.id /\ c.page_number = doc.page}
               IN  IF cs = {}
                   THEN {[document_id |-> d.id, chunk_id |-> NULL]}
                   ELSE {[document_id |-> d.id, chunk_id |-> c.id] : c \in cs}
               : d \in ds}

RECURSIVE ResolveAll(_)
ResolveAll(docs) ==
    IF docs = <<>> THEN {<<>>}
    ELSE {<<r>> \o rest : r \in Resolve(Head(docs)), rest \in ResolveAll(Tail(docs))}

\* an assistant Message that always goes to conversation 1
AssistantMessage_first_conversation(t, mid) ==
    [id |-> mid, conversation_id |-> 1, role |-> "assistant",
     content |-> Strip(full_answer(t.answer))]

\* app.py lines 344-349: the assistant Message of a turn
AssistantMessage(t, mid) ==
    [id |-> mid, conversation_id |-> t.conversation_id, role |-> "assistant",
     content |-> Strip(full_answer(t.answer))]

\* app.py lines 352-377: one Citation per retrieved passage, in retrieval order
CitationRows(t, mid, refs, first_id) ==
    {[id |-> first_id + i - 1, message_id |-> mid,
      document_id |-> refs[i].document_id, chunk_id |-> refs[i].chunk_id,
      page_number |-> t.retrieved_docs[i].page] : i \in 1..Len(t.retrieved_docs)}

\* The steps of lines 344-379 that can raise: the flush of the assistant
\* Message (line 350) and the commit (line 379)
PersistFailures == {"flush", "commit"}

\* app.py lines 344-379: the assistant Message and one Citation per retrieved
\* passage, flushed and committed together.  When a step raises, the except
\* clause of lines 396-401 runs, which does not roll back: the rows stay in the
\* session's transaction, uncommitted.
Persist ==
    /\ turn.pc = "persist"
    /\ UNCHANGED <<conversations, documents, chunks, feedbacks, index, files,
                   fbreqs, response, log, docreq>>
    /\ \E refs \in ResolveAll(turn.retrieved_docs) :
          LET mid == seq.messages + 1
              n == Len(turn.retrieved_docs)
              msg == AssistantMessage(turn, mid)
              cits == CitationRows(turn, mid, refs, seq.citations + 1)
          IN  \/ /\ messages' = messages \cup {msg}
                 /\ citations' = citations \cup cits
                 /\ seq' = [seq EXCEPT !.messages = mid, !.citations = @ + n]
                 /\ turn' = [turn EXCEPT !.assistant_msg = mid, !.pc = "citations"]
                 /\ UNCHANGED pending
              \/ \E step \in PersistFailures :
                   /\ turn' = Raise(turn, "persist")
                   /\ pending' =
                          IF step = "flush"
                          THEN [pending EXCEPT !.messages = @ \cup {msg}]
                          ELSE [pending EXCEPT !.messages = @ \cup {msg},
                                               !.citations = @ \cup cits]
                   /\ seq' = IF step = "flush" THEN seq
                             ELSE [seq EXCEPT !.messages = mid, !.citations = @ + n]
                   /\ UNCHANGED <<messages, citations>>

\* app.py lines 381-393
EmitCitations ==
    /\ turn.pc = "citations"
    /\ turn' = [Emit(turn, [type |-> "citations",
                            citations |-> [i \in 1..Len(turn.retrieved_docs) |->
                                              turn.retrieved_docs[i].vid],
                            conversation_id |-> turn.conversation_id])
                EXCEPT !.pc = "done"]
    /\ GenFrame

\* app.py line 394: reading assistant_msg.id after the commit reloads the row
\* and can raise
EmitDone ==
    /\ turn.pc = "done"
    /\ \/ turn' = [Emit(turn, [type |-> "done", message_id |-> turn.assistant_msg])
                   EXCEPT !.pc = "closed"]
       \/ turn' = Raise(turn, "done")
    /\ GenFrame

\* app.py line 403, stream_with_context: the request's context is popped when
\* the generator is exhausted, and Flask-SQLAlchemy then removes the session,
\* which discards what was not committed
Teardown ==
    /\ turn.pc = "closed"
    /\ ~turn.context_popped
    /\ turn' = [turn EXCEPT !.context_popped = TRUE]
    /\ pending' = NoPending
    /\ UNCHANGED <<conversations, messages, documents, chunks, citations,
                   feedbacks, seq, index, files, fbreqs, response, log, docreq>>

\* --------------------------------------------------------- initial contents
\* The index after store_index.py has indexed the shared corpus (no user_id
\* tag), with one vector tagged "global", the vectors of user 1's Document 1,
\* and the vectors of a Document 2 of user 2 that was deleted while the
\* vector-store delete failed
InitIndex ==
    {[vid |-> 1, user_id |-> NoneVal, document_id |-> NoneVal,
      source |-> "data/book.pdf", page |-> 3],
     [vid |-> 2, user_id |-> "global", document_id |-> NoneVal,
      source |-> "data/guide.pdf", page |-> 0],
     [vid |-> 3, user_id |-> "1", document_id |-> "1",
      source |-> "uploads/a.pdf", page |-> 0],
     [vid |-> 4, user_id |-> "2", document_id |-> "2",
      source |-> "uploads/b.pdf", page |-> 0]}

InitDocuments ==
    {[id |-> 1, user_id |-> 1, file_path |-> "uploads/a.pdf", is_indexed |-> TRUE]}

InitChunks ==
    {[id |-> 1, document_id |-> 1, chunk_index |-> 0, page_number |-> 0],
     [id |-> 2, document_id |-> 1, chunk_index |-> 1, page_number |-> 1]}

InitConversations == {[id |-> 1, user_id |-> 1], [id |-> 2, user_id |-> 2]}

InitMessages ==
    {[id |-> 1, conversation_id |-> 1, role |-> "user", content |-> <<"h", "i">>],
     [id |-> 2, conversation_id |-> 2, role |-> "user", content |-> <<"h", "i">>]}

Init ==
    /\ conversations = InitConversations
    /\ messages = InitMessages
    /\ documents = InitDocuments
    /\ chunks = InitChunks
    /\ citations = {}
    /\ feedbacks = {}
    /\ seq = [conversations |-> 2, messages |-> 2, documents |-> 2, chunks |-> 3,
              citations |-> 0, feedbacks |-> 0, vectors |-> 4, uuid |-> 0]
    /\ index = InitIndex
    /\ files = {"uploads/a.pdf"}
    /\ turn = IdleTurn
    /\ fbreqs = [r \in ReqIds |-> IdleReq]
    /\ response = NoResponse
    /\ pending = NoPending
    /\ log = {}
    /\ docreq = IdleDocReq

Next ==
    \/ \E u \in Users, body \in ChatBodies,
          db_fail \in {"none", "conversation", "message"} : ChatStream(u, body, db_fail)
    \/ Heartbeat
    \/ \E fails \in BOOLEAN : PrepareRetrievers(fails)
    \/ Rewrite
    \/ InitialRetrieve
    \/ Analyze
    \/ Hop
    \/ Synthesize
    \/ Generate
    \/ EmitTokens
    \/ Persist
    \/ EmitCitations
    \/ EmitDone
    \/ Teardown

Spec == Init /\ [][Next]_vars

\* The steps of the generator.  The server iterates the generator of line 403
\* until it is exhausted, and every external call returns or raises: a step
\* that can be taken is taken.
GenNext ==
    \/ Heartbeat
    \/ \E fails \in BOOLEAN : PrepareRetrievers(fails)
    \/ Rewrite
    \/ InitialRetrieve
    \/ Analyze
    \/ Hop
    \/ Synthesize
    \/ Generate
    \/ EmitTokens
    \/ Persist
    \/ EmitCitations
    \/ EmitDone
    \/ Teardown

LiveSpec == Init /\ [][Next]_vars /\ WF_vars(GenNext)


\* ------------------------------------------------------ document endpoints
PdfSuffix == <<".", "p", "d", "f">>

\* a test of the extension that forgets the dot
IsPdfName_no_dot(filename) == EndsWith(Lower(filename), <<"p", "d", "f">>)

\* app.py line 502: file.filename.lower().endswith('.pdf')
IsPdfName(filename) == EndsWith(Lower(filename), PdfSuffix)

Filenames ==
    {<<>>, <<"A", ".", "P", "d", "f">>, <<"a", ".", "t", "x", "t">>,
     <<"a", "p", "d", "f">>}

\* request.files of POST /api/upload: has_file = FALSE is a request with no
\* 'file' part
UploadRequests ==
    [has_file : {TRUE}, filename : Filenames] \cup [has_file : {FALSE}, filename : {<<>>}]

\* The page of each chunk text_split makes of an uploaded PDF of n chunks: the
\* chunks come in page order, two to a page, the first from page 0
ChunkPages == {[i \in 1..n |-> (i - 1) \div 2] : n \in 0..MaxChunks}

\* What can happen to an accepted upload: the chunks of the PDF, the step that
\* raises if any ("load", lines 516-525; "add_documents", line 601, after k
\* vectors were written; "commit", line 605)
UploadOutcomes ==
    {[pages |-> <<>>, fail |-> "load", k |-> 0]}
    \cup {[pages |-> p, fail |-> "none", k |-> Len(p)] : p \in ChunkPages}
    \cup {[pages |-> p, fail |-> "commit", k |-> Len(p)] : p \in ChunkPages \ {<<>>}}
    \cup UNION {{[pages |-> p, fail |-> "add_documents", k |-> k] :
                      k \in {0, Len(p) - 1}} : p \in ChunkPages \ {<<>>}}

NoOutcome == [pages |-> <<>>, fail |-> "none", k |-> 0]

\* an upload handler without its checks of the request
UploadRefused_never(req) == FALSE

\* app.py lines 491-504: the requests refused before the file is saved
UploadRefused(req) ==
    ~req.has_file \/ req.filename = <<>> \/ ~IsPdfName(req.filename)

\* app.py lines 506-508: the path of the k-th stored upload (uuid4 makes it
\* unique)
UploadPath(k) == "uploads/" \o Str(k) \o ".pdf"

\* app.py lines 544-552: the DocumentChunk rows of a new Document
NewChunks(doc_id, pages, first_id) ==
    {[id |-> first_id + i - 1, document_id |-> doc_id, chunk_index |-> i - 1,
      page_number |-> pages[i]] : i \in 1..Len(pages)}

\* app.py lines 568-594: the vectors of the first k chunks of a new Document
NewVectors(u, doc_id, path, pages, first_vid, k) ==
    {[vid |-> first_vid + i - 1, user_id |-> Str(u), document_id |-> Str(doc_id),
      source |-> path, page |-> pages[i]] : i \in 1..k}

\* A line printed about a step that raised: "warning" when the handler goes on
\* (app.py lines 672-673, 743-745), "error" when it gives up (lines 616-624,
\* 682-688, 759-765)
LogEntry(level, step) == [level |-> level, step |-> step]

DocFrame ==
    UNCHANGED <<conversations, messages, feedbacks, turn, fbreqs, pending, docreq>>

\* app.py upload_document, lines 491-624
UploadDocument(u, req, out) ==
    /\ DocFrame
    /\ UNCHANGED citations
    /\ IF UploadRefused(req)
       THEN /\ response' = Reply("upload_document", u, 400, NULL, req)
            /\ log' = {}
            /\ UNCHANGED <<documents, chunks, seq, index, files>>
       ELSE /\ seq.uuid < MaxUploads
            /\ LET path == UploadPath(seq.uuid + 1)
                   doc_id == seq.documents + 1
                   pages == out.pages
                   n == Len(pages)
               IN  IF out.fail = "load"
                   THEN /\ response' = Reply("upload_document", u, 500, NULL, req)
                        /\ log' = {LogEntry("error", "load")}
                        /\ seq' = [seq EXCEPT !.uuid = @ + 1]
                        /\ UNCHANGED <<documents, chunks, index, files>>
                   ELSE IF n = 0
                   THEN /\ response' = Reply("upload_document", u, 400, NULL, req)
                        /\ log' = {}
                        /\ files' = files \cup {path}
                        /\ seq' = [seq EXCEPT !.uuid = @ + 1]
                        /\ UNCHANGED <<documents, chunks, index>>
                   ELSE IF out.fail \in {"add_documents", "commit"}
                   THEN /\ response' = Reply("upload_document", u, 500, NULL, req)
                        /\ log' = {LogEntry("error", out.fail)}
                        /\ index' = index \cup
                               NewVectors(u, doc_id, path, pages, seq.vectors + 1, out.k)
                        /\ seq' = [seq EXCEPT !.uuid = @ + 1, !.documents = doc_id,
                                              !.chunks = @ + n, !.vectors = @ + out.k]
                        /\ UNCHANGED <<documents, chunks, files>>
                   ELSE /\ documents' = documents \cup
                               {[id |-> doc_id, user_id |-> u, file_path |-> path,
                                 is_indexed |-> TRUE]}
                        /\ chunks' = chunks \cup NewChunks(doc_id, pages, seq.chunks + 1)
                        /\ index' = index \cup
                               NewVectors(u, doc_id, path, pages, seq.vectors + 1, n)
                        /\ files' = files \cup {path}
                        /\ seq' = [seq EXCEPT !.uuid = @ + 1, !.documents = doc_id,
                                              !.chunks = @ + n, !.vectors = @ + n]
                        /\ response' = Reply("upload_document", u, 200, doc_id, req)
                        /\ log' = {}

ChunkIds(doc_id) == {c.id : c \in {x \in chunks : x.document_id = doc_id}}

\* a vector-store delete that returns without deleting
VectorsLeft_all(idx, doc_id, pinecone_fails) == idx

\* app.py lines 660-673: index.delete(filter={"document_id": str(doc.id)});
\* when it raises the vectors stay and the handler goes on
VectorsLeft(idx, doc_id, pinecone_fails) ==
    IF pinecone_fails THEN idx ELSE {v \in idx : v.document_id # Str(doc_id)}

\* a deletion that removes the Citation rows with the Document
NullifyCitations_deletes(cits, doc_id, chunk_ids) ==
    {c \in cits : c.document_id # doc_id /\ c.chunk_id \notin chunk_ids}

\* app.py lines 640-656 (and 176-194, 720-737): the Citations that point at the
\* Document or at one of its chunks lose those references, and only those
NullifyCitations(cits, doc_id, chunk_ids) ==
    {[c EXCEPT !.document_id = IF @ = doc_id THEN NULL ELSE @,
               !.chunk_id = IF @ \in chunk_ids THEN NULL ELSE @] : c \in cits}

\* a relationship without its delete cascade
CascadeChunks_none(chs, doc_id) == chs

\* src/database.py line 45: Document.chunks, cascade='all, delete-orphan':
\* db.session.delete(doc) deletes the Document's chunks
CascadeChunks(chs, doc_id) == {c \in chs : c.document_id # doc_id}

\* app.py delete_document, lines 633-688.  pinecone_fails: index.delete raises
\* (caught at line 672); file_fails: os.remove raises; commit_fails: the flush
\* or the commit raises
DeleteDocument(u, doc_id, pinecone_fails, file_fails, commit_fails) ==
    /\ DocFrame
    /\ UNCHANGED seq
    /\ IF ~\E d \in documents : d.id = doc_id /\ d.user_id = u
       THEN /\ ~pinecone_fails /\ ~file_fails /\ ~commit_fails
            /\ response' = Refusal("delete_document", u, 404, doc_id, <<>>,
                                   "Document not found")
            /\ log' = {}
            /\ UNCHANGED <<documents, chunks, citations, index, files>>
       ELSE LET doc == CHOOSE d \in documents : d.id = doc_id
                vectors_left == VectorsLeft(index, doc.id, pinecone_fails)
                warned ==
                    IF pinecone_fails THEN {LogEntry("warning", "vector_delete")}
                    ELSE {}
            IN  /\ index' = vectors_left
                /\ IF doc.file_path \in files /\ file_fails
                   THEN /\ ~commit_fails
                        /\ response' = Reply("delete_document", u, 500, doc_id, <<>>)
                        /\ log' = warned \cup {LogEntry("error", "file_delete")}
                        /\ UNCHANGED <<documents, chunks, citations, files>>
                   ELSE /\ doc.file_path \notin files => ~file_fails
                        /\ files' = files \ {doc.file_path}
                        /\ IF commit_fails
                           THEN /\ response' =
                                       Reply("delete_document", u, 500, doc_id, <<>>)
                                /\ log' = warned \cup {LogEntry("error", "commit")}
                                /\ UNCHANGED <<documents, chunks, citations>>
                           ELSE /\ log' = warned
                                /\ citations' =
                                       NullifyCitations(citations, doc.id,
                                                        ChunkIds(doc.id))
                                /\ documents' = documents \ {doc}
                                /\ chunks' = CascadeChunks(chunks, doc.id)
                                /\ response' =
                                       Reply("delete_document", u, 200, doc_id, <<>>)

\* The rows left when every Document of docs has gone through the loop body
\* of cleanup_pinecone (app.py lines 719-748) or of documents (lines 176-199)
RECURSIVE NullifyAll(_, _)
NullifyAll(cits, docs) ==
    IF docs = {} THEN cits
    ELSE LET d == CHOOSE x \in docs : TRUE
         IN  NullifyAll(NullifyCitations(cits, d.id, ChunkIds(d.id)), docs \ {d})

RECURSIVE CascadeAll(_, _)
CascadeAll(chs, docs) ==
    IF docs = {} THEN chs
    ELSE LET d == CHOOSE x \in docs : TRUE
         IN  CascadeAll(CascadeChunks(chs, d.id), docs \ {d})

\* app.py cleanup_pinecone, lines 695-765.  pinecone_fails: index.delete raises
\* (line 713); unremoved: the files whose os.remove raises (caught at line 743);
\* commit_fails: the commit of line 750 raises
CleanupPinecone(u, pinecone_fails, unremoved, commit_fails) ==
    /\ DocFrame
    /\ UNCHANGED seq
    /\ LET user_docs == {d \in documents : d.user_id = u}
           paths == {d.file_path : d \in user_docs} \cap files
       IN  IF pinecone_fails
           THEN /\ unremoved = {} /\ ~commit_fails
                /\ response' = Reply("cleanup_pinecone", u, 500, NULL, <<>>)
                /\ log' = {LogEntry("error", "vector_delete")}
                /\ UNCHANGED <<documents, chunks, citations, index, files>>
           ELSE /\ unremoved \subseteq paths
                /\ index' = {v \in index : v.user_id # Str(u)}
                /\ files' = files \ (paths \ unremoved)
                /\ IF commit_fails
                   THEN /\ response' = Reply("cleanup_pinecone", u, 500, NULL, <<>>)
                        /\ log' = {LogEntry("warning", "file_delete") : x \in unremoved}
                                   \cup {LogEntry("error", "commit")}
                        /\ UNCHANGED <<documents, chunks, citations>>
                   ELSE /\ log' = {LogEntry("warning", "file_delete") : x \in unremoved}
                        /\ citations' = NullifyAll(citations, user_docs)
                        /\ documents' = documents \ user_docs
                        /\ chunks' = CascadeAll(chunks, user_docs)
                        /\ response' = Reply("cleanup_pinecone", u, 200, NULL, <<>>)

\* app.py documents, lines 161-208: the page of a user's documents deletes the
\* rows of the Documents whose file is missing
DocumentsPage(u) ==
    /\ DocFrame
    /\ UNCHANGED <<seq, index, files>>
    /\ LET missing == {d \in documents : d.user_id = u /\ d.file_path \notin files}
       IN  /\ citations' = NullifyAll(citations, missing)
           /\ documents' = documents \ missing
           /\ chunks' = CascadeAll(chunks, missing)
           /\ response' = Reply("documents", u, 200, NULL, <<>>)
           /\ log' = {}

\* The store after user 1 uploaded Document 1 and had a chat turn that cited
\* it and the shared corpus
DocInitMessages ==
    {[id |-> 1, conversation_id |-> 1, role |-> "user", content |-> <<"h", "i">>],
     [id |-> 2, conversation_id |-> 1, role |-> "assistant", content |-> <<"a">>],
     [id |-> 3, conversation_id |-> 2, role |-> "user", content |-> <<"h", "i">>]}

DocInitCitations ==
    {[id |-> 1, message_id |-> 2, document_id |-> 1, chunk_id |-> 1, page_number |-> 0],
     [id |-> 2, message_id |-> 2, document_id |-> 1, chunk_id |-> NULL, page_number |-> 4],
     [id |-> 3, message_id |-> 2, document_id |-> NULL, chunk_id |-> NULL, page_number |-> 3],
     [id |-> 4, message_id |-> 2, document_id |-> 1, chunk_id |-> 2, page_number |-> 1]}

DocInitIndex ==
    {[vid |-> 1, user_id |-> NoneVal, document_id |-> NoneVal,
      source |-> "data/book.pdf", page |-> 3],
     [vid |-> 2, user_id |-> "1", document_id |-> "1",
      source |-> "uploads/a.pdf", page |-> 0],
     [vid |-> 3, user_id |-> "1", document_id |-> "1",
      source |-> "uploads/a.pdf", page |-> 1]}

DocInit ==
    /\ conversations = InitConversations
    /\ messages = DocInitMessages
    /\ documents = InitDocuments
    /\ chunks = InitChunks
    /\ citations = DocInitCitations
    /\ feedbacks = {}
    /\ seq = [conversations |-> 2, messages |-> 3, documents |-> 1, chunks |-> 2,
              citations |-> 4, feedbacks |-> 0, vectors |-> 3, uuid |-> 0]
    /\ index = DocInitIndex
    /\ files = {"uploads/a.pdf"}
    /\ turn = IdleTurn
    /\ fbreqs = [r \in ReqIds |-> IdleReq]
    /\ response = NoResponse
    /\ pending = NoPending
    /\ log = {}
    /\ docreq = IdleDocReq

\* The steps of a deletion that can raise: the vector-store delete, the removal
\* of the file, the commit
DeleteFaults == [pinecone : BOOLEAN, file : BOOLEAN, commit : BOOLEAN]

DocNext ==
    \/ \E u \in Users, req \in UploadRequests :
          \E out \in IF UploadRefused(req) THEN {NoOutcome} ELSE UploadOutcomes :
            UploadDocument(u, req, out)
    \/ \E u \in Users, doc_id \in {d.id : d \in documents} \cup {seq.documents + 1},
          faults \in DeleteFaults :
            DeleteDocument(u, doc_id, faults.pinecone, faults.file, faults.commit)
    \/ \E u \in Users, faults \in DeleteFaults :
          \E unremoved \in IF faults.file
                            THEN SUBSET {d.file_path : d \in documents} \ {{}}
                            ELSE {{}} :
            CleanupPinecone(u, faults.pinecone, unremoved, faults.commit)
    \/ \E u \in Users : DocumentsPage(u)

DocSpec == DocInit /\ [][DocNext]_vars

\* ------------------------------------------------------- feedback endpoint
\* request.get_json() of POST /api/feedback: message_id = NULL and
\* rating = NoneVal are missing fields; a missing comment is ''
FeedbackBodies ==
    [message_id : {NULL, 1, 2, 9}, rating : {"positive", "negative"},
     comment : {<<>>, <<"c">>}]
    \cup [message_id : {NULL, 1, 2, 9}, rating : {"good", NoneVal}, comment : {<<>>}]

ConversationOf(m) == CHOOSE c \in conversations : c.id = m.conversation_id

FbFrame == UNCHANGED <<conversations, messages, documents, chunks, citations,
                       index, files, turn, pending, log, docreq>>

\* app.py submit_feedback, lines 774-789: the checks and the query for an
\* existing row, in the request's own transaction
FeedbackBegin(r, u, body) ==
    /\ fbreqs[r].pc \in {"idle", "done"}
    /\ FbFrame
    /\ UNCHANGED <<feedbacks, seq>>
    /\ IF body.message_id = NULL \/ body.rating \notin {"positive", "negative"}
       THEN /\ response' = Refusal("submit_feedback", u, 400, body.message_id, body,
                                   "Invalid request")
            /\ fbreqs' = [fbreqs EXCEPT ![r] = [IdleReq EXCEPT !.pc = "done"]]
       ELSE IF ~\E m \in messages : m.id = body.message_id
       THEN /\ response' = Refusal("submit_feedback", u, 404, body.message_id, body,
                                   "Message not found")
            /\ fbreqs' = [fbreqs EXCEPT ![r] = [IdleReq EXCEPT !.pc = "done"]]
       ELSE IF \E m \in messages :
                  m.id = body.message_id /\ ConversationOf(m).user_id # u
       THEN /\ response' = Refusal("submit_feedback", u, 404, body.message_id, body,
                                   "Message not found")
            /\ fbreqs' = [fbreqs EXCEPT ![r] = [IdleReq EXCEPT !.pc = "done"]]
       ELSE /\ \E existing \in
                    IF \E f \in feedbacks :
                           f.message_id = body.message_id /\ f.user_id = u
                    THEN {f.id : f \in {x \in feedbacks :
                               x.message_id = body.message_id /\ x.user_id = u}}
                    ELSE {NULL} :
                fbreqs' = [fbreqs EXCEPT ![r] =
                              [pc |-> "write", user_id |-> u,
                               message_id |-> body.message_id,
                               rating |-> body.rating, comment |-> body.comment,
                               existing |-> existing]]
            /\ UNCHANGED response

\* a handler that inserts a row without looking for an existing one
WriteFeedback_always_inserts(rows, req, new_id) ==
    rows \cup {[id |-> new_id, user_id |-> req.user_id,
                message_id |-> req.message_id, rating |-> req.rating,
                comment |-> req.comment]}

\* app.py lines 790-800: the existing row gets the new rating and comment, or
\* a new row is added
WriteFeedback(rows, req, new_id) ==
    IF req.existing # NULL
    THEN {IF f.id = req.existing
          THEN [f EXCEPT !.rating = req.rating, !.comment = req.comment]
          ELSE f : f \in rows}
    ELSE rows \cup {[id |-> new_id, user_id |-> req.user_id,
                     message_id |-> req.message_id, rating |-> req.rating,
                     comment |-> req.comment]}

\* app.py lines 790-803: the write and the commit
FeedbackCommit(r, commit_fails) ==
    /\ fbreqs[r].pc = "write"
    /\ FbFrame
    /\ LET req == fbreqs[r]
           body == [message_id |-> req.message_id, rating |-> req.rating,
                    comment |-> req.comment]
       IN  /\ fbreqs' = [fbreqs EXCEPT ![r].pc = "done"]
           /\ IF commit_fails
              THEN /\ response' =
                          Reply("submit_feedback", req.user_id, 500, req.message_id, body)
                   /\ UNCHANGED <<feedbacks, seq>>
              ELSE /\ feedbacks' = WriteFeedback(feedbacks, req, seq.feedbacks + 1)
                   /\ seq' = [seq EXCEPT !.feedbacks =
                                  IF req.existing = NULL THEN @ + 1 ELSE @]
                   /\ response' =
                          Reply("submit_feedback", req.user_id, 200, req.message_id, body)

\* The store after each of the two users had one chat turn
FeedbackInit ==
    /\ conversations = InitConversations
    /\ messages = InitMessages
    /\ documents = InitDocuments
    /\ chunks = InitChunks
    /\ citations = {}
    /\ feedbacks = {}
    /\ seq = [conversations |-> 2, messages |-> 2, documents |-> 2, chunks |-> 3,
              citations |-> 0, feedbacks |-> 0, vectors |-> 4, uuid |-> 0]
    /\ index = InitIndex
    /\ files = {"uploads/a.pdf"}
    /\ turn = IdleTurn
    /\ fbreqs = [r \in ReqIds |-> IdleReq]
    /\ response = NoResponse
    /\ pending = NoPending
    /\ log = {}
    /\ docreq = IdleDocReq

\* Concurrent requests: each of the MaxReqs requests runs once, and the steps
\* of different requests interleave
FeedbackNext ==
    \/ \E r \in ReqIds, u \in Users, body \in FeedbackBodies :
          fbreqs[r].pc = "idle" /\ FeedbackBegin(r, u, body)
    \/ \E r \in ReqIds, commit_fails \in BOOLEAN : FeedbackCommit(r, commit_fails)

FeedbackSpec == FeedbackInit /\ [][FeedbackNext]_vars

\* Requests made one after another: a request begins only when no other is
\* between its first and its last step
FeedbackSeqNext ==
    \/ \E u \in Users, body \in FeedbackBodies :
          /\ \A r \in ReqIds : fbreqs[r].pc # "write"
          /\ FeedbackBegin(1, u, body)
    \/ \E commit_fails \in BOOLEAN : FeedbackCommit(1, commit_fails)

FeedbackSeqSpec == FeedbackInit /\ [][FeedbackSeqNext]_vars

\* ------------------------------------- multi_hop_reasoning, any max_hops
\* The values of the max_hops parameter (rag_advanced.py line 81: an int)
HopArgs == (0 - MaxHopsArg)..MaxHopsArg

\* An advanced turn of user 1 in conversation 1 at rag_advanced.py line 104:
\* the query is rewritten and the initial retrieval returned one passage of
\* the shared corpus and the passage of the user's Document
HopStartTurn ==
    LET initial == <<CHOOSE p \in InitIndex : p.vid = 1, CHOOSE p \in InitIndex : p.vid = 3>>
        rq == <<"r", "q">>
    IN  [IdleTurn EXCEPT
            !.pc = "analyze", !.user_id = 1, !.conversation_id = 1,
            !.use_advanced_rag = TRUE, !.user_message = <<"h", "i">>,
            !.user_retriever = TRUE, !.rewritten_query = rq,
            !.retrieved_docs = initial, !.initial_docs = initial,
            !.reasoning_chain = <<rq>>,
            !.events = <<[type |-> "heartbeat"]>>,
            !.calls = <<[op |-> "rewrite", query |-> <<"h", "i">>]>>
                      \o RetrieveCalls(rq, TRUE)
                      \o <<[op |-> "analyze", query |-> rq]>>]

\* The store and the response when user 1 has sent "hi" to conversation 1 and
\* the handler has committed the user Message (app.py lines 242-248)
StartedStore ==
    /\ conversations = InitConversations
    /\ messages = InitMessages \cup
           {[id |-> 3, conversation_id |-> 1, role |-> "user", content |-> <<"h", "i">>]}
    /\ documents = InitDocuments
    /\ chunks = InitChunks
    /\ citations = {}
    /\ feedbacks = {}
    /\ seq = [conversations |-> 2, messages |-> 3, documents |-> 2, chunks |-> 3,
              citations |-> 0, feedbacks |-> 0, vectors |-> 4, uuid |-> 0]
    /\ index = InitIndex
    /\ files = {"uploads/a.pdf"}
    /\ fbreqs = [r \in ReqIds |-> IdleReq]
    /\ pending = NoPending
    /\ log = {}
    /\ docreq = IdleDocReq

\* multi_hop_reasoning called with any max_hops, after a classification that
\* returned any list of sub-questions
HopInit ==
    /\ StartedStore
    /\ turn \in {AfterAnalysis([HopStartTurn EXCEPT !.max_hops = h, !.result = out],
                                analyze_query_complexity(out)) :
                     h \in HopArgs, out \in {o \in AnalysisOutputs : o.json = "list"}}
    /\ response = Reply("chat_stream", 1, 200, 1,
                        [has_data |-> TRUE, message |-> <<"h", "i">>,
                         conversation_id |-> 1, use_advanced_rag |-> TRUE])

HopNext == Hop \/ Synthesize

HopSpec == HopInit /\ [][HopNext]_vars

\* ------------------------------------------- the answer of any generation
\* The characters of an answer text: two letters, the space and the newline
AnswerChars == {"a", "b", " ", "\n"}

\* A simple-path turn of user 1 in conversation 1 at app.py line 338, the
\* generation call having returned answer for a query that retrieved one
\* passage of the shared corpus
TokenStartTurn(answer) ==
    LET rq == <<"r", "q">>
    IN  [IdleTurn EXCEPT
            !.pc = "tokens", !.user_id = 1, !.conversation_id = 1,
            !.user_message = <<"h", "i">>, !.user_retriever = TRUE,
            !.rewritten_query = rq,
            !.retrieved_docs = <<CHOOSE p \in InitIndex : p.vid = 1>>,
            !.initial_docs = <<CHOOSE p \in InitIndex : p.vid = 1>>,
            !.reasoning_chain = <<rq>>,
            !.answer = answer,
            !.events = <<[type |-> "heartbeat"]>>,
            !.calls = <<[op |-> "rewrite", query |-> <<"h", "i">>]>>
                      \o RetrieveCalls(rq, TRUE)
                      \o <<[op |-> "generate", query |-> <<"h", "i">>]>>]

TokenInit ==
    /\ StartedStore
    /\ turn \in {TokenStartTurn(answer) : answer \in Texts(AnswerChars, MaxAnswerLen)}
    /\ response = Reply("chat_stream", 1, 200, 1,
                        [has_data |-> TRUE, message |-> <<"h", "i">>,
                         conversation_id |-> 1, use_advanced_rag |-> FALSE])

TokenNext == EmitTokens \/ Persist \/ EmitCitations \/ EmitDone \/ Teardown

TokenSpec == TokenInit /\ [][TokenNext]_vars

\* ------------------------------------------------------- reading messages
\* Rows in the order of their ids (the order of created_at)
RECURSIVE SortById(_)
SortById(rows) ==
    IF rows = {} THEN <<>>
    ELSE LET first == CHOOSE x \in rows : \A y \in rows : x.id <= y.id
         IN  <<first>> \o SortById(rows \ {first})

\* app.py lines 443-475: the messages of a conversation, oldest first
MessagesOf(cid) ==
    LET rows == SortById({m \in messages : m.conversation_id = cid})
    IN  [i \in 1..Len(rows) |->
            [id |-> rows[i].id, role |-> rows[i].role, content |-> rows[i].content]]

\* app.py get_messages, lines 436-477
GetMessages(u, cid) ==
    /\ response' =
           IF ~OwnsConversation(u, cid)
           THEN Refusal("get_messages", u, 404, cid, <<>>, "Conversation not found")
           ELSE [Reply("get_messages", u, 200, cid, <<>>) EXCEPT !.data = MessagesOf(cid)]
    /\ UNCHANGED <<conversations, messages, documents, chunks, citations, feedbacks,
                   seq, index, files, turn, fbreqs, pending, log, docreq>>

\* Requests of the two users that name a conversation, a document or a
\* message and pass the validation of their other fields: the handler of
\* chat_stream, get_messages, delete_document and submit_feedback, one request
\* at a time
AccessChatBodies ==
    {b \in ChatBodies : b.has_data /\ b.message # <<>> /\ ~b.use_advanced_rag}

AccessFeedbackBodies ==
    {b \in FeedbackBodies : b.rating = "positive" /\ b.comment = <<>>}

AccessNext ==
    \/ \E u \in Users, body \in AccessChatBodies : ChatStream(u, body, "none")
    \/ \E u \in Users, cid \in {1, 2, 9} : GetMessages(u, cid)
    \/ \E u \in Users, doc_id \in {d.id : d \in documents} \cup {seq.documents + 1} :
          DeleteDocument(u, doc_id, FALSE, FALSE, FALSE)
    \/ \E u \in Users, body \in AccessFeedbackBodies :
          /\ \A r \in ReqIds : fbreqs[r].pc # "write"
          /\ FeedbackBegin(1, u, body)
    \/ FeedbackCommit(1, FALSE)

AccessSpec == Init /\ [][AccessNext]_vars

\* ------------------------------- chat turns and deletions that interleave
\* a database that does not check the foreign keys of Citation
ForeignKeysHold_unenforced(cits, docs, chks) == TRUE

\* src/database.py lines 104-105: Citation.document_id is a ForeignKey to
\* documents.id and Citation.chunk_id one to document_chunks.id, both
\* nullable.  The database refuses a transaction that would leave a Citation
\* with a reference to no row.
ForeignKeysHold(cits, docs, chks) ==
    \A c \in cits :
        /\ c.document_id = NULL \/ \E d \in docs : d.id = c.document_id
        /\ c.chunk_id = NULL \/ \E k \in chks : k.id = c.chunk_id

\* app.py lines 344-377: the assistant Message is flushed, the Document and
\* the chunk of each passage are looked up and the Citations are added to the
\* session; nothing is committed yet
PersistResolve ==
    /\ turn.pc = "persist"
    /\ UNCHANGED <<conversations, messages, citations, documents, chunks, feedbacks,
                   index, files, fbreqs, response, log, docreq>>
    /\ \E refs \in ResolveAll(turn.retrieved_docs) :
          LET mid == seq.messages + 1
              msg == AssistantMessage(turn, mid)
              cits == CitationRows(turn, mid, refs, seq.citations + 1)
          IN  \/ /\ pending' = [messages |-> {msg}, citations |-> cits]
                 /\ seq' = [seq EXCEPT !.messages = mid,
                                       !.citations = @ + Len(turn.retrieved_docs)]
                 /\ turn' = [turn EXCEPT !.assistant_msg = mid, !.pc = "commit"]
              \/ /\ pending' = [pending EXCEPT !.messages = @ \cup {msg}]
                 /\ turn' = Raise(turn, "persist")
                 /\ UNCHANGED seq

\* app.py line 379: the commit of the assistant Message and its Citations,
\* which raises when the database refuses it (lines 396-401 follow)
PersistCommit(commit_fails) ==
    /\ turn.pc = "commit"
    /\ UNCHANGED <<conversations, documents, chunks, feedbacks, seq, index, files,
                   fbreqs, response, log, docreq>>
    /\ IF commit_fails \/ ~ForeignKeysHold(pending.citations, documents, chunks)
       THEN /\ turn' = Raise(turn, "persist")
            /\ UNCHANGED <<messages, citations, pending>>
       ELSE /\ messages' = messages \cup pending.messages
            /\ citations' = citations \cup pending.citations
            /\ pending' = NoPending
            /\ turn' = [turn EXCEPT !.pc = "citations"]

\* app.py delete_document, lines 633-676: the Citations of the Document are
\* read and set to NULL in the session, the vectors and the file are deleted
DeleteBegin(u, doc_id, pinecone_fails, file_fails) ==
    /\ docreq.pc \in {"idle", "done"}
    /\ UNCHANGED <<conversations, messages, documents, chunks, citations, feedbacks,
                   seq, turn, fbreqs, pending>>
    /\ LET r == [IdleDocReq EXCEPT !.op = "delete_document", !.user = u,
                                   !.doc_id = doc_id]
       IN  IF ~\E d \in documents : d.id = doc_id /\ d.user_id = u
           THEN /\ ~pinecone_fails /\ ~file_fails
                /\ response' = Refusal("delete_document", u, 404, doc_id, <<>>,
                                       "Document not found")
                /\ log' = {}
                /\ docreq' = [r EXCEPT !.pc = "done"]
                /\ UNCHANGED <<index, files>>
           ELSE LET doc == CHOOSE d \in documents : d.id = doc_id
                    warned ==
                        IF pinecone_fails THEN {LogEntry("warning", "vector_delete")}
                        ELSE {}
                    read == {c.id : c \in {x \in citations :
                                 x.document_id = doc.id \/ x.chunk_id \in ChunkIds(doc.id)}}
                IN  /\ index' = VectorsLeft(index, doc.id, pinecone_fails)
                    /\ IF doc.file_path \in files /\ file_fails
                       THEN /\ response' = Reply("delete_document", u, 500, doc_id, <<>>)
                            /\ log' = warned \cup {LogEntry("error", "file_delete")}
                            /\ docreq' = [r EXCEPT !.pc = "done"]
                            /\ UNCHANGED files
                       ELSE /\ doc.file_path \notin files => ~file_fails
                            /\ files' = files \ {doc.file_path}
                            /\ log' = warned
                            /\ docreq' = [r EXCEPT !.pc = "delete", !.nullified = read,
                                                   !.file_path = doc.file_path]
                            /\ UNCHANGED response

\* app.py lines 678-688: db.session.delete(doc) and the commit of the
\* transaction, which holds the Citations set to NULL at lines 652-656.  The
\* commit raises when the Document is gone or the database refuses it
DeleteFinish(commit_fails) ==
    /\ docreq.op = "delete_document" /\ docreq.pc = "delete"
    /\ UNCHANGED <<conversations, messages, feedbacks, seq, index, files, turn,
                   fbreqs, pending>>
    /\ docreq' = [docreq EXCEPT !.pc = "done"]
    /\ LET doc_id == docreq.doc_id
           read == {c \in citations : c.id \in docreq.nullified}
           cits == NullifyCitations(read, doc_id, ChunkIds(doc_id))
                   \cup (citations \ read)
           docs == {d \in documents : d.id # doc_id}
           chks == CascadeChunks(chunks, doc_id)
       IN  IF commit_fails \/ docs = documents \/ ~ForeignKeysHold(cits, docs, chks)
           THEN /\ response' = Reply("delete_document", docreq.user, 500, doc_id, <<>>)
                /\ log' = log \cup {LogEntry("error", "commit")}
                /\ UNCHANGED <<documents, chunks, citations>>
           ELSE /\ citations' = cits
                /\ documents' = docs
                /\ chunks' = chks
                /\ response' = Reply("delete_document", docreq.user, 200, doc_id, <<>>)
                /\ UNCHANGED log

\* A turn of user 1 in conversation 1 that has its answer and retrieved a
\* passage of the shared corpus and two of the user's Document, while the
\* store is the one of DocInit
ConcInit ==
    /\ conversations = InitConversations
    /\ messages = DocInitMessages \cup
           {[id |-> 4, conversation_id |-> 1, role |-> "user", content |-> <<"h", "i">>]}
    /\ documents = InitDocuments
    /\ chunks = InitChunks
    /\ citations = DocInitCitations
    /\ feedbacks = {}
    /\ seq = [conversations |-> 2, messages |-> 4, documents |-> 1, chunks |-> 2,
              citations |-> 4, feedbacks |-> 0, vectors |-> 3, uuid |-> 0]
    /\ index = DocInitIndex
    /\ files = {"uploads/a.pdf"}
    /\ fbreqs = [r \in ReqIds |-> IdleReq]
    /\ pending = NoPending
    /\ log = {}
    /\ docreq = IdleDocReq
    /\ turn = [TokenStartTurn(<<"a">>) EXCEPT
                  !.retrieved_docs = <<CHOOSE p \in DocInitIndex : p.vid = 1,
                                       CHOOSE p \in DocInitIndex : p.vid = 2>>,
                  !.initial_docs = <<CHOOSE p \in DocInitIndex : p.vid = 1,
                                     CHOOSE p \in DocInitIndex : p.vid = 2>>]
    /\ response = Reply("chat_stream", 1, 200, 1,
                        [has_data |-> TRUE, message |-> <<"h", "i">>,
                         conversation_id |-> 1, use_advanced_rag |-> FALSE])

\* The generator's steps from the tokens on, interleaved with deletions,
\* cleanups and uploads of either user
ConcNext ==
    \/ EmitTokens
    \/ PersistResolve
    \/ \E commit_fails \in BOOLEAN : PersistCommit(commit_fails)
    \/ EmitCitations
    \/ EmitDone
    \/ Teardown
    \/ \E u \in Users, doc_id \in {d.id : d \in documents} \cup {seq.documents + 1},
          pinecone_fails, file_fails \in BOOLEAN :
            DeleteBegin(u, doc_id, pinecone_fails, file_fails)
    \/ \E commit_fails \in BOOLEAN : DeleteFinish(commit_fails)
    \/ \E u \in Users : CleanupPinecone(u, FALSE, {}, FALSE)
    \/ \E u \in Users, out \in {o \in UploadOutcomes : o.fail = "none"} :
          UploadDocument(u, [has_file |-> TRUE, filename |-> <<"A", ".", "P", "d", "f">>],
                         out)

ConcSpec == ConcInit /\ [][ConcNext]_vars

\* ------------------------------------------------ one turn after another
\* app.py line 211: the server takes the next chat request when the response
\* of the last one is complete and its context is gone; MaxTurns requests are
\* accepted
NextRequest ==
    /\ \/ turn.pc = "refused"
       \/ turn.pc = "closed" /\ turn.context_popped
    /\ Cardinality({m \in messages : m.role = "user"})
           < Cardinality(InitMessages) + MaxTurns
    /\ Cardinality(conversations) < Cardinality(InitConversations) + MaxTurns
    /\ turn' = IdleTurn
    /\ GenFrame

\* Turns of either user on the simple path, in a new conversation or in
\* conversation 1 or 2, one after another
TurnsNext ==
    \/ \E u \in Users,
          body \in {b \in ChatBodies : b.has_data /\ b.message # <<>>
                                        /\ b.conversation_id # 9
                                        /\ ~b.use_advanced_rag},
          db_fail \in {"none", "message"} : ChatStream(u, body, db_fail)
    \/ Heartbeat
    \/ PrepareRetrievers(FALSE)
    \/ Rewrite
    \/ InitialRetrieve
    \/ Generate
    \/ EmitTokens
    \/ Persist
    \/ EmitCitations
    \/ EmitDone
    \/ Teardown
    \/ NextRequest

\* The store of Init with a vector store that holds one passage of the
\* shared corpus only
TurnsInit ==
    /\ conversations = InitConversations
    /\ messages = InitMessages
    /\ documents = InitDocuments
    /\ chunks = InitChunks
    /\ citations = {}
    /\ feedbacks = {}
    /\ seq = [conversations |-> 2, messages |-> 2, documents |-> 2, chunks |-> 3,
              citations |-> 0, feedbacks |-> 0, vectors |-> 4, uuid |-> 0]
    /\ index = {p \in InitIndex : p.user_id = "global"}
    /\ files = {"uploads/a.pdf"}
    /\ turn = IdleTurn
    /\ fbreqs = [r \in ReqIds |-> IdleReq]
    /\ response = NoResponse
    /\ pending = NoPending
    /\ log = {}
    /\ docreq = IdleDocReq

TurnsSpec == TurnsInit /\ [][TurnsNext]_vars

\* ------------------------------------------- retrieval after a deletion
\* A chat turn up to the end of its retrievals, and deletions of either user
\* before it or between its steps
DeletedNext ==
    \/ \E u \in Users,
          body \in {b \in ChatBodies : b.has_data /\ b.message # <<>>
                                        /\ b.conversation_id = NULL} :
            ChatStream(u, body, "none")
    \/ Heartbeat
    \/ PrepareRetrievers(FALSE)
    \/ Rewrite
    \/ InitialRetrieve
    \/ Analyze
    \/ Hop
    \/ \E u \in Users, doc_id \in {d.id : d \in documents} \cup {seq.documents + 1},
          pinecone_fails \in BOOLEAN :
            DeleteDocument(u, doc_id, pinecone_fails, FALSE, FALSE)

DeletedSpec == Init /\ [][DeletedNext]_vars

\* ------------------------------------------------ requests of every kind
\* Chat, feedback and upload requests, valid or not, one after another: chat
\* requests on the simple path for a new conversation or conversation 1,
\* feedback without a comment on no message or on message 2
RequestNext ==
    \/ \E u \in Users,
          body \in {b \in ChatBodies :
                       b.conversation_id \in {NULL, 1} /\ ~b.use_advanced_rag} :
            ChatStream(u, body, "none")
    \/ \E u \in Users,
          body \in {b \in FeedbackBodies :
                       b.message_id \in {NULL, 2} /\ b.comment = <<>>} :
          /\ fbreqs[1].pc # "write"
          /\ FeedbackBegin(1, u, body)
    \/ FeedbackCommit(1, FALSE)
    \/ \E u \in Users, req \in UploadRequests :
          \E out \in IF UploadRefused(req) THEN {NoOutcome}
                     ELSE {o \in UploadOutcomes : o.fail = "none"} :
            UploadDocument(u, req, out)

RequestSpec == DocInit /\ [][RequestNext]_vars

\* ---------------------------------------- upload_document, step by step
\* The metadata dict of a langchain Document: keys is the set of its keys, and
\* a key that is absent has the empty value in its field ("extra" stands for
\* any key the program never reads)
Meta(keys, source, page, user_id, document_id) ==
    [keys |-> keys,
     source |-> IF "source" \in keys THEN source ELSE "",
     page |-> IF "page" \in keys THEN page ELSE 0,
     user_id |-> IF "user_id" \in keys THEN user_id ELSE "",
     document_id |-> IF "document_id" \in keys THEN document_id ELSE ""]

\* a filter that returns the documents it was given
filter_to_minimal_docs_keeps_metadata(docs) == docs

\* src/helper.py filter_to_minimal_docs, lines 33-43: the source and the page
\* only, None for a source that is absent and 0 for a page that is absent
filter_to_minimal_docs(docs) ==
    [i \in DOMAIN docs |->
        LET m == docs[i].metadata
        IN  [page_content |-> docs[i].page_content,
             metadata |-> Meta({"source", "page"},
                               IF "source" \in m.keys THEN m.source ELSE NoneVal,
                               IF "page" \in m.keys THEN m.page ELSE 0, "", "")]]

\* src/helper.py text_split, for pages shorter than chunk_size: one chunk per
\* page that has text, with the metadata of the page
text_split(extracted_data) ==
    SelectSeq(extracted_data, LAMBDA d : d.page_content # <<>>)

\* a tagging in which the keys of the chunk win over the uploader's
clean_metadata_chunk_wins(m, file_path, doc_id, u) ==
    [keys |-> (m.keys \ {"source"})
              \cup {"source", "document_id", "chunk_id", "user_id", "page"},
     source |-> IF "source" \in m.keys /\ m.source \notin {NoneVal, ""}
                THEN m.source ELSE file_path,
     page |-> IF "page" \in m.keys THEN m.page ELSE 0,
     user_id |-> IF "user_id" \in m.keys THEN m.user_id ELSE Str(u),
     document_id |-> IF "document_id" \in m.keys THEN m.document_id ELSE Str(doc_id)]

\* app.py lines 568-589: the metadata a chunk is stored with.  The keys of the
\* chunk are copied first, document_id, chunk_id and user_id are set after
clean_metadata(m, file_path, doc_id, u) ==
    [keys |-> (m.keys \ {"source"})
              \cup {"source", "document_id", "chunk_id", "user_id", "page"},
     source |-> IF "source" \in m.keys /\ m.source \notin {NoneVal, ""}
                THEN m.source ELSE file_path,
     page |-> IF "page" \in m.keys THEN m.page ELSE 0,
     user_id |-> Str(u),
     document_id |-> Str(doc_id)]

\* The vector PineconeVectorStore.add_documents (line 601) writes for a chunk
VectorOf(vid, m) ==
    [vid |-> vid,
     user_id |-> IF "user_id" \in m.keys THEN m.user_id ELSE NoneVal,
     document_id |-> IF "document_id" \in m.keys THEN m.document_id ELSE NoneVal,
     source |-> m.source, page |-> m.page]

UploadStepFrame ==
    UNCHANGED <<conversations, messages, citations, feedbacks, turn, fbreqs, pending>>

\* app.py lines 522-530
UploadFilter ==
    /\ docreq.op = "upload_document" /\ docreq.pc = "loaded"
    /\ LET filtered_docs == filter_to_minimal_docs(docreq.documents)
           text_chunks == text_split(filtered_docs)
           r == [docreq EXCEPT !.filtered_docs = filtered_docs,
                               !.text_chunks = text_chunks]
       IN  IF Len(text_chunks) = 0
           THEN /\ docreq' = [r EXCEPT !.pc = "done"]
                /\ response' = Reply("upload_document", docreq.user, 400, NULL, <<>>)
                /\ log' = {}
           ELSE /\ docreq' = [r EXCEPT !.pc = "tag"]
                /\ UNCHANGED <<response, log>>
    /\ UNCHANGED <<documents, chunks, seq, index, files>>
    /\ UploadStepFrame

\* app.py lines 532-601: the Document and its chunks are flushed, every chunk
\* gets its metadata and add_documents writes the vectors; it raises after k
\* of them when k is less than their number (lines 616-624 then roll back and
\* remove the file)
UploadTag(k) ==
    /\ docreq.op = "upload_document" /\ docreq.pc = "tag"
    /\ LET n == Len(docreq.text_chunks)
           doc_id == seq.documents + 1
           tagged == [i \in 1..n |->
                        [docreq.text_chunks[i] EXCEPT !.metadata =
                            clean_metadata(@, docreq.file_path, doc_id, docreq.user)]]
       IN  /\ k \in 0..n
           /\ index' = index \cup
                  {VectorOf(seq.vectors + i, tagged[i].metadata) : i \in 1..k}
           /\ seq' = [seq EXCEPT !.documents = doc_id, !.chunks = @ + n,
                                 !.vectors = @ + k]
           /\ IF k < n
              THEN /\ docreq' = [docreq EXCEPT !.text_chunks = tagged, !.pc = "done"]
                   /\ response' = Reply("upload_document", docreq.user, 500, NULL, <<>>)
                   /\ log' = {LogEntry("error", "add_documents")}
                   /\ files' = files \ {docreq.file_path}
              ELSE /\ docreq' = [docreq EXCEPT !.text_chunks = tagged, !.pc = "commit",
                                               !.doc_id = doc_id,
                                               !.first_chunk = seq.chunks + 1]
                   /\ UNCHANGED <<response, log, files>>
    /\ UNCHANGED <<documents, chunks>>
    /\ UploadStepFrame

\* app.py lines 603-614, and 616-624 when the commit raises
UploadFinish(commit_fails) ==
    /\ docreq.op = "upload_document" /\ docreq.pc = "commit"
    /\ docreq' = [docreq EXCEPT !.pc = "done"]
    /\ IF commit_fails
       THEN /\ response' = Reply("upload_document", docreq.user, 500, NULL, <<>>)
            /\ log' = {LogEntry("error", "commit")}
            /\ files' = files \ {docreq.file_path}
            /\ UNCHANGED <<documents, chunks>>
       ELSE /\ documents' = documents \cup
                   {[id |-> docreq.doc_id, user_id |-> docreq.user,
                     file_path |-> docreq.file_path, is_indexed |-> TRUE]}
            /\ chunks' = chunks \cup
                   NewChunks(docreq.doc_id,
                             [i \in DOMAIN docreq.text_chunks |->
                                 docreq.text_chunks[i].metadata.page],
                             docreq.first_chunk)
            /\ response' = Reply("upload_document", docreq.user, 200, docreq.doc_id, <<>>)
            /\ log' = {}
            /\ UNCHANGED files
    /\ UNCHANGED <<seq, index>>
    /\ UploadStepFrame

\* Metadata a PDF loader can give a page: the source and the page with or
\* without other keys, or only some of them
LoaderMetadata ==
    {Meta({"source", "page", "extra"}, "uploads/1.pdf", 1, "", ""),
     Meta({"source", "page"}, "uploads/1.pdf", 0, "", ""),
     Meta({"source", "extra"}, "uploads/1.pdf", 0, "", ""),
     Meta({"page"}, "", 2, "", ""),
     Meta({}, "", 0, "", ""),
     Meta({"source", "page", "user_id", "document_id"}, "uploads/1.pdf", 1, "global", "1")}

\* Metadata of a chunk at line 568, any: with a user_id or a document_id of
\* its own, with no source
ChunkMetadata ==
    {Meta({"source", "page"}, "uploads/1.pdf", 0, "", ""),
     Meta({"source", "page", "user_id"}, "uploads/1.pdf", 1, "global", ""),
     Meta({"source", "page", "user_id", "document_id"}, NoneVal, 1, "1", "1"),
     Meta({"page", "user_id"}, "", 2, "2", "")}

PagesOf(metas) ==
    UNION {[1..n -> [page_content : {<<>>, <<"x">>}, metadata : metas]] : n \in 0..MaxPages}

\* upload_document of either user at line 522, the file saved and loaded with
\* any pages, or at line 568 with any chunks
UploadStepInit ==
    /\ conversations = InitConversations
    /\ messages = DocInitMessages
    /\ documents = InitDocuments
    /\ chunks = InitChunks
    /\ citations = DocInitCitations
    /\ feedbacks = {}
    /\ seq = [conversations |-> 2, messages |-> 3, documents |-> 1, chunks |-> 2,
              citations |-> 4, feedbacks |-> 0, vectors |-> 3, uuid |-> 1]
    /\ index = DocInitIndex
    /\ files = {"uploads/a.pdf", UploadPath(1)}
    /\ turn = IdleTurn
    /\ fbreqs = [r \in ReqIds |-> IdleReq]
    /\ response = NoResponse
    /\ pending = NoPending
    /\ log = {}
    /\ \E u \in Users :
          LET r == [IdleDocReq EXCEPT !.op = "upload_document", !.user = u,
                                      !.file_path = UploadPath(1)]
          IN  \/ \E docs \in PagesOf(LoaderMetadata) :
                    docreq = [r EXCEPT !.pc = "loaded", !.documents = docs]
              \/ \E cs \in PagesOf(ChunkMetadata) \ {<<>>} :
                    docreq = [r EXCEPT !.pc = "tag", !.text_chunks = cs]

UploadStepNext ==
    \/ UploadFilter
    \/ \E k \in 0..MaxPages : UploadTag(k)
    \/ \E commit_fails \in BOOLEAN : UploadFinish(commit_fails)

UploadStepSpec == UploadStepInit /\ [][UploadStepNext]_vars

\* ------------------------------------------- the merge of the two searches
\* An index in which each search has more than one passage to return: the
\* initial one and a second page of the Document of user 1
MergeIndex ==
    InitIndex \cup {[vid |-> 5, user_id |-> "1", document_id |-> "1",
                     source |-> "uploads/a.pdf", page |-> 1]}

\* A similarity search that returns up to MaxMergeHits passages
WideSearch(user_filter) ==
    DistinctSeqs({p \in index : user_filter = NoneVal \/ p.user_id = user_filter},
                 MaxMergeHits)

\* The outcomes of a retrieval round, each with the two results as the
\* searches returned them (the values of base_docs and user_docs_res at
\* lines 283 and 286, before filter_allowed)
MergeOutcomes(t, query) ==
    {[RetrieveRound(t, query, b, u) EXCEPT !.base_docs = b, !.user_docs_res = u] :
        b \in WideSearch(NoneVal),
        u \in IF t.user_retriever THEN WideSearch(Str(t.user_id)) ELSE {<<>>}}

\* Either user has sent "hi" to their conversation, on either path; the
\* generator has sent its heartbeat (app.py line 254)
MergeInit ==
    /\ conversations = InitConversations
    /\ documents = InitDocuments
    /\ chunks = InitChunks
    /\ citations = {}
    /\ feedbacks = {}
    /\ seq = [conversations |-> 2, messages |-> 3, documents |-> 2, chunks |-> 3,
              citations |-> 0, feedbacks |-> 0, vectors |-> 5, uuid |-> 0]
    /\ index = MergeIndex
    /\ files = {"uploads/a.pdf"}
    /\ fbreqs = [r \in ReqIds |-> IdleReq]
    /\ pending = NoPending
    /\ log = {}
    /\ docreq = IdleDocReq
    /\ \E u \in Users, adv \in BOOLEAN :
          LET body == [has_data |-> TRUE, message |-> <<"h", "i">>,
                       conversation_id |-> u, use_advanced_rag |-> adv]
          IN  /\ messages = InitMessages \cup
                     {[id |-> 3, conversation_id |-> u, role |-> "user",
                       content |-> <<"h", "i">>]}
              /\ turn = [IdleTurn EXCEPT
                            !.pc = "prepare", !.user_id = u, !.conversation_id = u,
                            !.use_advanced_rag = adv, !.user_message = <<"h", "i">>,
                            !.events = <<[type |-> "heartbeat"]>>]
              /\ response = Reply("chat_stream", u, 200, u, body)

MergeNext ==
    \/ \E fails \in BOOLEAN : PrepareRetrievers(fails)
    \/ Rewrite
    \/ InitialRetrieveFrom(MergeOutcomes(turn, turn.rewritten_query))

MergeSpec == MergeInit /\ [][MergeNext]_vars

\* ------------------------------------------------------------------ claims
OwnerTags(u) == {Str(u), "global", NoneVal}

PassageOf(vid) == CHOOSE p \in InitIndex : p.vid = vid

EventTypes(t) == [i \in 1..Len(t.events) |-> t.events[i].type]

\* C1: no passage tagged with another user's id is among the passages
\* retrieved for the requesting user, in the simple path, in the advanced path
\* and in every sub-question retrieval, nor among the passages cited: every
\* retrieved passage is tagged str(user), "global" or has no user_id tag.
C1_NoCrossUserPassage ==
    /\ \A i \in 1..Len(turn.retrieved_docs) :
          /\ turn.retrieved_docs[i].user_id \in OwnerTags(turn.user_id)
          /\ \A b \in Users \ {turn.user_id} : turn.retrieved_docs[i].user_id # Str(b)
    /\ \A i \in 1..Len(turn.events) :
          turn.events[i].type = "citations" =>
              \A k \in 1..Len(turn.events[i].citations) :
                  PassageOf(turn.events[i].citations[k]).user_id
                      \in OwnerTags(turn.user_id)

\* C1 witness: an advanced turn of user 1 that took two hops and ended in done
\* with passages retrieved, while the index holds a passage tagged with user 2
C1_Witness ==
    /\ turn.pc = "closed" /\ turn.raised = NoneVal
    /\ turn.user_id = 1 /\ turn.use_advanced_rag /\ turn.hop = 2
    /\ Len(turn.retrieved_docs) >= 3
    /\ \E p \in index : p.user_id = Str(2)

\* C6: a chat-stream request with a non-empty message and no conversation_id
\* that gets its stream has created exactly one Conversation, owned by the
\* requesting user (that user's count is one more, every other user's
\* conversations are unchanged), and has committed exactly one user Message in
\* it before the first stream event, however the turn ends.
C6_NewConversationAndUserMessage ==
    (turn.new_conversation /\ turn.pc \notin {"idle", "refused"}) =>
        /\ Cardinality({c \in conversations : c.user_id = turn.user_id})
               = Cardinality({c \in InitConversations : c.user_id = turn.user_id}) + 1
        /\ \A b \in Users \ {turn.user_id} :
               {c \in conversations : c.user_id = b}
                   = {c \in InitConversations : c.user_id = b}
        /\ Cardinality(conversations) = Cardinality(InitConversations) + 1
        /\ \E c \in conversations \ InitConversations :
               c.id = turn.conversation_id /\ c.user_id = turn.user_id
        /\ Cardinality({m \in messages : m.conversation_id = turn.conversation_id
                                          /\ m.role = "user"}) = 1
        /\ \E m \in messages :
               /\ m.conversation_id = turn.conversation_id
               /\ m.role = "user" /\ m.content = turn.user_message
        /\ (turn.pc = "start" => turn.events = <<>>)

\* C6 witness: such a turn of user 2 that ended in an error event
C6_Witness ==
    /\ turn.new_conversation /\ turn.user_id = 2
    /\ turn.pc = "closed" /\ turn.raised # NoneVal

\* C8: the passages retrieved for a turn contain no passage twice.
C8_NoPassageTwice ==
    \A i, j \in 1..Len(turn.retrieved_docs) :
        i # j => turn.retrieved_docs[i].vid # turn.retrieved_docs[j].vid

\* C9: when the model call of rewrite_query raises, no retrieval, classification,
\* synthesis or generation call is made, nothing is retrieved, no assistant
\* Message and no Citation is persisted, and the stream ends with an error event.
C9_RewriteFailureAbortsTurn ==
    turn.raised = "rewrite" =>
        /\ \A i \in 1..Len(turn.calls) : turn.calls[i].op = "rewrite"
        /\ turn.retrieved_docs = <<>>
        /\ turn.answer = <<>>
        /\ turn.assistant_msg = NULL
        /\ {m \in messages : m.role = "assistant"} = {}
        /\ citations = {}
        /\ turn.pc = "closed"
        /\ Len(turn.events) > 0
        /\ turn.events[Len(turn.events)].type = "error"
        /\ \A i \in 1..Len(turn.events) : turn.events[i].type \in {"heartbeat", "error"}

\* C9 witness: the rewriting call raised in an advanced turn
C9_Witness == turn.raised = "rewrite" /\ turn.use_advanced_rag

\* C10: a stream has at most one error event and it is its last event; no
\* stream has both a done and an error event; once a step has raised, the
\* stream consists of the events before it and one error event, and is closed.
C10_SingleTerminalError ==
    LET types == EventTypes(turn)
        errors == {i \in 1..Len(types) : types[i] = "error"}
    IN  /\ Cardinality(errors) <= 1
        /\ \A i \in errors : i = Len(types)
        /\ ~(\E i, j \in 1..Len(types) : types[i] = "done" /\ types[j] = "error")
        /\ turn.raised # NoneVal =>
               /\ errors = {Len(types)}
               /\ types[1] = "heartbeat"
               /\ turn.pc = "closed"

\* C10 witness: the step after the citations event raised
C10_Witness ==
    /\ turn.raised = "done"
    /\ \E i \in 1..Len(turn.events) : turn.events[i].type = "citations"
    /\ \E i \in 1..Len(turn.events) : turn.events[i].type = "token"


\* C2: a successful delete_document of Document D keeps every Citation row and
\* changes of it only the references to D and to D's chunks, which become null.
C2_DeleteNullsCitations ==
    [][(response'.op = "delete_document" /\ response'.status = 200) =>
          LET D == response'.id
              cks == ChunkIds(D)
          IN  /\ {c.id : c \in citations'} = {c.id : c \in citations}
              /\ Cardinality(citations') = Cardinality(citations)
              /\ \A c \in citations : \E c2 \in citations' :
                    /\ c2.id = c.id
                    /\ c2.message_id = c.message_id
                    /\ c2.page_number = c.page_number
                    /\ c2.document_id = IF c.document_id = D THEN NULL ELSE c.document_id
                    /\ c2.chunk_id = IF c.chunk_id \in cks THEN NULL ELSE c.chunk_id
              /\ \A c2 \in citations' : c2.document_id # D /\ c2.chunk_id \notin cks
    ]_vars

\* C2 witness: Document 1 was deleted with success, and the Citations 1, 2 and
\* 4, which pointed at it and at its chunks 1 and 2, are there with null
\* references
C2_Witness ==
    /\ response.op = "delete_document" /\ response.status = 200 /\ response.id = 1
    /\ \A c \in DocInitCitations : \E c2 \in citations :
          c2.id = c.id /\ c2.document_id = NULL /\ c2.chunk_id = NULL

\* C3: after a successful delete_document of Document D neither the row D nor
\* a DocumentChunk of D is in the store, and in every reachable state the
\* parent Document of every DocumentChunk exists.
C3_ChunksFollowDocument ==
    /\ \A c \in chunks : \E d \in documents : d.id = c.document_id
    /\ (response.op = "delete_document" /\ response.status = 200) =>
          /\ ~\E d \in documents : d.id = response.id
          /\ ~\E c \in chunks : c.document_id = response.id

\* C3 witness: Document 1, which had two chunks, was deleted with success while
\* an uploaded Document and its chunks are in the store
C3_Witness ==
    /\ response.op = "delete_document" /\ response.status = 200 /\ response.id = 1
    /\ chunks # {}

\* C7: an upload whose file name does not end in ".pdf", whatever the case of
\* its letters, is answered 400 and leaves the Document rows, the chunk rows,
\* the upload folder and the index as they were.
C7_NonPdfRefused ==
    [][(/\ response'.op = "upload_document"
        /\ response'.request.has_file
        /\ ~EndsWith(Lower(response'.request.filename), PdfSuffix)) =>
          /\ response'.status = 400
          /\ UNCHANGED <<documents, chunks, files, index>>
    ]_vars

\* C7 witness: the upload of "a.txt" was answered 400
C7_Witness ==
    /\ response.op = "upload_document" /\ response.status = 400
    /\ response.request.has_file
    /\ response.request.filename = <<"a", ".", "t", "x", "t">>

\* C4: after requests made one after another, the Feedback rows of a (user,
\* message) pair are at most one, and after a successful request exactly one,
\* with the rating and the comment of that request.
C4_OneRowLastWins ==
    /\ \A u \in Users : \A m \in messages :
          Cardinality({f \in feedbacks : f.user_id = u /\ f.message_id = m.id}) <= 1
    /\ (response.op = "submit_feedback" /\ response.status = 200) =>
          LET rows == {f \in feedbacks :
                          f.user_id = response.user /\ f.message_id = response.id}
          IN  /\ Cardinality(rows) = 1
              /\ \A f \in rows : /\ f.rating = response.request.rating
                                 /\ f.comment = response.request.comment

\* C4 witness: a successful request that found the row of an earlier request
\* (the update branch); the row carries this request's rating
C4_Witness ==
    /\ fbreqs[1].pc = "done" /\ fbreqs[1].existing # NULL
    /\ response.op = "submit_feedback" /\ response.status = 200
    /\ \E f \in feedbacks : f.id = fbreqs[1].existing /\ f.rating = fbreqs[1].rating

\* C5: under any interleaving of concurrent submit_feedback requests, a
\* Message has at most one Feedback row.
C5_AtMostOneFeedbackPerMessage ==
    \A m \in messages : Cardinality({f \in feedbacks : f.message_id = m.id}) <= 1

\* The positions of the events of one type in a turn's stream
Positions(t, type) == {i \in 1..Len(t.events) : t.events[i].type = type}

\* C11: in every chat stream the user Message is committed before the first
\* event; the first event is heartbeat; every token event precedes the
\* citations event; the assistant Message and one Citation row per retrieved
\* passage are committed before the citations event; done comes right after
\* citations, is the last event and carries the id of the committed assistant
\* Message.
C11_EventsOrdered ==
    LET n == Len(turn.events)
        cit == Positions(turn, "citations")
        done == Positions(turn, "done")
    IN  /\ turn.pc \in {"idle", "refused"} => n = 0
        /\ turn.pc \notin {"idle", "refused"} =>
               \E m \in messages :
                   /\ m.conversation_id = turn.conversation_id
                   /\ m.role = "user" /\ m.content = turn.user_message
        /\ n > 0 => turn.events[1].type = "heartbeat"
        /\ Positions(turn, "heartbeat") \subseteq {1}
        /\ \A i \in Positions(turn, "token") : \A j \in cit : i < j
        /\ Cardinality(cit) <= 1
        /\ cit # {} =>
               /\ \E m \in messages :
                      /\ m.id = turn.assistant_msg /\ m.role = "assistant"
                      /\ m.conversation_id = turn.conversation_id
               /\ Cardinality({c \in citations : c.message_id = turn.assistant_msg})
                      = Len(turn.retrieved_docs)
        /\ \A i \in done :
               /\ i = n /\ i - 1 \in cit
               /\ turn.events[i].message_id = turn.assistant_msg
               /\ \E m \in messages : m.id = turn.events[i].message_id
                                         /\ m.role = "assistant"

\* C11 witness: a stream that ended in done after two token events and a
\* citations event for at least one passage
C11_Witness ==
    /\ turn.pc = "closed" /\ turn.raised = NoneVal
    /\ Cardinality(Positions(turn, "token")) = 2
    /\ Positions(turn, "done") # {}
    /\ Len(turn.retrieved_docs) >= 1

\* C12: when a step of a chat turn raises, the transaction is rolled back
\* before the error event is emitted: once the stream carries an error event,
\* the session holds no uncommitted row of the failed turn (no flushed
\* assistant Message, no Citation), and the committed store holds none either.
C12_RolledBackBeforeError ==
    Positions(turn, "error") # {} =>
        /\ pending = NoPending
        /\ turn.raised = "persist" =>
               {m \in messages : m.conversation_id = turn.conversation_id
                                  /\ m.role = "assistant"} = {}

\* The steps of a cleanup that the last request printed as failed
FailedSteps == {l.step : l \in log}

\* C13: in delete_document and cleanup_pinecone, when the vector-store delete
\* or the local file delete raises and nothing else does, the failure is
\* logged as a warning and the operation goes on: the response is a success
\* and the Document row (delete_document) or every Document row of the user
\* (cleanup_pinecone) is gone.
C13_CleanupStepFailureNotFatal ==
    (/\ response.op \in {"delete_document", "cleanup_pinecone"}
     /\ FailedSteps # {}
     /\ FailedSteps \subseteq {"vector_delete", "file_delete"}) =>
        /\ response.status = 200
        /\ \A l \in log : l.level = "warning"
        /\ response.op = "delete_document" =>
               ~\E d \in documents : d.id = response.id
        /\ response.op = "cleanup_pinecone" =>
               ~\E d \in documents : d.user_id = response.user

\* A request of its sender r.user that names a conversation, a document or a
\* message of another user, and passes the checks made before the lookup
NamesForeign(r) ==
    \/ /\ r.op = "chat_stream"
       /\ r.request.has_data /\ r.request.message # <<>>
       /\ \E c \in conversations : c.id = r.id /\ c.user_id # r.user
    \/ /\ r.op = "get_messages"
       /\ \E c \in conversations : c.id = r.id /\ c.user_id # r.user
    \/ /\ r.op = "delete_document"
       /\ \E d \in documents : d.id = r.id /\ d.user_id # r.user
    \/ /\ r.op = "submit_feedback"
       /\ r.request.rating \in {"positive", "negative"}
       /\ \E m \in messages : m.id = r.id /\ ConversationOf(m).user_id # r.user

\* The same request naming a resource that does not exist
NamesMissing(r) ==
    \/ /\ r.op = "chat_stream"
       /\ r.request.has_data /\ r.request.message # <<>>
       /\ r.id # NULL /\ ~\E c \in conversations : c.id = r.id
    \/ /\ r.op = "get_messages" /\ ~\E c \in conversations : c.id = r.id
    \/ /\ r.op = "delete_document" /\ ~\E d \in documents : d.id = r.id
    \/ /\ r.op = "submit_feedback"
       /\ r.request.rating \in {"positive", "negative"}
       /\ r.id # NULL /\ ~\E m \in messages : m.id = r.id

\* The body of an endpoint's not-found response
NotFoundError(op) ==
    CASE op \in {"chat_stream", "get_messages"} -> "Conversation not found"
      [] op = "delete_document" -> "Document not found"
      [] op = "submit_feedback" -> "Message not found"

\* C14: a request that names a conversation (chat_stream, get_messages), a
\* document (delete_document) or a message (submit_feedback) of another user
\* is answered as a request that names a resource that does not exist: 404
\* with the endpoint's not-found body and no data, and the step that answers
\* it changes nothing in the relational store, the index or the upload folder.
C14_ForeignResourceIsNotFound ==
    [][(/\ response' # response
        /\ NamesForeign(response') \/ NamesMissing(response')) =>
          /\ response'.status = 404
          /\ response'.error = NotFoundError(response'.op)
          /\ response'.data = <<>>
          /\ UNCHANGED <<conversations, messages, documents, chunks, citations,
                         feedbacks, index, files, pending>>
    ]_vars

\* C14 witness: user 2 asked to delete Document 1 of user 1 and got 404, the
\* Document still there
C14_Witness ==
    /\ response.op = "delete_document" /\ response.status = 404
    /\ response.user = 2
    /\ \E d \in documents : d.id = response.id /\ d.user_id = 1

\* The external calls of a turn made by one of the operations ops, in order
CallsOf(t, ops) == SelectSeq(t.calls, LAMBDA c : c.op \in ops)

\* C15: when the classification is direct, multi_hop_reasoning has made exactly
\* one retrieval, with the rewritten query, and makes no synthesis call; its
\* answer is the classification's answer, its reasoning chain is the rewritten
\* query alone and its context is exactly the initial retrieval result.
C15_DirectAnswerReturnsAtOnce ==
    turn.analysis.type = "direct" =>
        /\ CallsOf(turn, {"base_search", "user_search"})
               = RetrieveCalls(turn.rewritten_query, turn.user_retriever)
        /\ CallsOf(turn, {"synthesize", "generate"}) = <<>>
        /\ Len(CallsOf(turn, {"analyze"})) = 1
        /\ turn.answer = turn.analysis.answer
        /\ turn.reasoning_chain = <<turn.rewritten_query>>
        /\ turn.retrieved_docs = turn.initial_docs

\* C15 witness: an advanced turn classified "DIRECT:" that ended in done with
\* two passages from the initial retrieval
C15_Witness ==
    /\ turn.analysis.type = "direct" /\ turn.result.prefix = "DIRECT:"
    /\ turn.pc = "closed" /\ turn.raised = NoneVal
    /\ Len(turn.retrieved_docs) = 2

\* The queries of the sub-question retrievals of a turn: the global search of
\* every retrieval round after the initial one
SubQuestionRetrievals(t) ==
    LET searches == CallsOf(t, {"base_search"})
    IN  [i \in 1..(Len(searches) - 1) |-> searches[i + 1].query]

C17_ParseFailureFallsBack ==
    (turn.result.prefix = "MULTI_HOP:" /\ turn.result.json = "invalid") =>
        /\ turn.analysis = [type |-> "direct", answer |-> ParseFailureAnswer,
                            sub_questions |-> <<>>, shape |-> NoneVal]
        /\ turn.answer = ParseFailureAnswer
        /\ SubQuestionRetrievals(turn) = <<>>
        /\ CallsOf(turn, {"synthesize", "generate"}) = <<>>
        /\ turn.raised \in {NoneVal, "persist", "done"}
        /\ (turn.pc = "closed" /\ turn.raised = NoneVal) =>
               /\ Positions(turn, "done") = {Len(turn.events)}
               /\ Positions(turn, "error") = {}
               /\ \E m \in messages :
                      /\ m.id = turn.assistant_msg
                      /\ m.content = ParseFailureAnswer

\* C17 witness: a turn whose classification output was "MULTI_HOP:" followed
\* by text that is no JSON, and that ended in done
C17_Witness ==
    /\ turn.result.prefix = "MULTI_HOP:" /\ turn.result.json = "invalid"
    /\ turn.pc = "closed" /\ turn.raised = NoneVal
    /\ Positions(turn, "done") # {}

\* C18: after a turn that ended in done, the assistant Message has one
\* Citation row per retrieved passage, in retrieval order; the document_id of
\* the row of a passage is the id of a Document whose file_path is the
\* passage's source if there is one and null otherwise, and its chunk_id is
\* null or the id of a chunk of that Document with the passage's page.
C18_OneCitationPerPassage ==
    Positions(turn, "done") # {} =>
        LET rows == SortById({c \in citations : c.message_id = turn.assistant_msg})
            docs == turn.retrieved_docs
        IN  /\ Len(rows) = Len(docs)
            /\ \A i \in 1..Len(docs) :
                   LET owners == {d \in documents : d.file_path = docs[i].source}
                   IN  /\ rows[i].page_number = docs[i].page
                       /\ owners = {} => rows[i].document_id = NULL
                       /\ owners # {} => rows[i].document_id \in {d.id : d \in owners}
                       /\ rows[i].chunk_id # NULL =>
                              /\ rows[i].document_id # NULL
                              /\ \E c \in chunks :
                                     /\ c.id = rows[i].chunk_id
                                     /\ c.document_id = rows[i].document_id
                                     /\ c.page_number = docs[i].page

\* C18 witness: a turn of user 1 that ended in done and cited a passage of the
\* shared corpus (no Document) and then the passage of Document 1, page 0
C18_Witness ==
    /\ Positions(turn, "done") # {}
    /\ Len(turn.retrieved_docs) = 2
    /\ turn.retrieved_docs[1].vid = 1 /\ turn.retrieved_docs[2].vid = 3
    /\ \E c \in citations : c.document_id = 1 /\ c.chunk_id = 1
    /\ \E c \in citations : c.document_id = NULL

\* The whitespace-delimited words of a text: its maximal runs of characters
\* that are neither space nor newline, from left to right
WordStarts(s) ==
    {i \in 1..Len(s) : s[i] \notin {" ", "\n"} /\ (i = 1 \/ s[i - 1] \in {" ", "\n"})}

WordEnds(s) ==
    {i \in 1..Len(s) :
        s[i] \notin {" ", "\n"} /\ (i = Len(s) \/ s[i + 1] \in {" ", "\n"})}

Nth(S, k) == CHOOSE x \in S : Cardinality({y \in S : y < x}) = k - 1

WordsOf(s) ==
    [k \in 1..Cardinality(WordStarts(s)) |->
        SubSeq(s, Nth(WordStarts(s), k), Nth(WordEnds(s), k))]

\* Words joined by single spaces
RECURSIVE JoinWords(_)
JoinWords(ws) ==
    IF ws = <<>> THEN <<>>
    ELSE IF Len(ws) = 1 THEN ws[1]
    ELSE ws[1] \o <<" ">> \o JoinWords(Tail(ws))

\* C19: for every answer text, the token events of the turn are the
\* whitespace-delimited words of the answer, in order, one event per word with
\* content = word + " ", and the content of the persisted assistant Message
\* is the words joined by single spaces (the concatenation of the token
\* contents without its trailing space).
C19_TokensAreTheWords ==
    turn.pc \notin {"idle", "refused", "start", "prepare", "rewrite", "retrieve",
                    "analyze", "hop", "synth", "generate", "tokens"}
    /\ turn.raised \in {NoneVal, "persist", "done"} =>
        LET words == WordsOf(turn.answer)
            tokens == SelectSeq(turn.events, LAMBDA ev : ev.type = "token")
        IN  /\ Len(tokens) = Len(words)
            /\ \A k \in 1..Len(words) : tokens[k].content = words[k] \o <<" ">>
            /\ \A m \in messages :
                   m.id = turn.assistant_msg =>
                       /\ m.content = JoinWords(words)
                       /\ tokens # <<>> =>
                              m.content \o <<" ">>
                                  = Concat([k \in 1..Len(tokens) |-> tokens[k].content])

\* C19 witness: the answer " a\nb" (a leading space, a newline between the
\* words) was streamed as two tokens and persisted as "a b"
C19_Witness ==
    /\ turn.answer = <<" ", "a", "\n", "b">>
    /\ Positions(turn, "done") # {}
    /\ \E m \in messages :
          m.id = turn.assistant_msg /\ m.content = <<"a", " ", "b">>

\* The terminal events of a turn's stream
TerminalEvents(t) == Positions(t, "done") \cup Positions(t, "error")

\* C20: every chat turn that has started ends: its stream is closed with
\* exactly one terminal event, done or error, as its last event; before that
\* the stream has no terminal event, and the multi-hop loop never runs more
\* than min(number of sub-questions, max_hops) iterations.
C20_TurnTerminates ==
    /\ [](turn.hop <= Min(Len(turn.sub_questions), max_hops))
    /\ [](TerminalEvents(turn) # {} => turn.pc = "closed")
    /\ (turn.pc = "start") ~>
           (/\ turn.pc = "closed"
            /\ TerminalEvents(turn) = {Len(turn.events)})

\* C20 witness: an advanced turn whose loop ran max_hops times over three
\* sub-questions and that ended in done
C20_Witness ==
    /\ turn.pc = "closed" /\ turn.raised = NoneVal
    /\ Len(turn.sub_questions) = 3 /\ turn.hop = max_hops
    /\ TerminalEvents(turn) = {Len(turn.events)}

\* out is what is left of the search result res when the passages of other
\* users are taken out: the kept passages, in the order of res
IsKeptOf(out, res, u) ==
    LET kept == {i \in DOMAIN res : res[i].user_id \in {Str(u), "global", NoneVal}}
    IN  /\ Len(out) = Cardinality(kept)
        /\ \A j \in DOMAIN out :
              \E i \in kept : /\ out[j] = res[i]
                               /\ Cardinality({k \in kept : k < i}) = j - 1

HasIndexedDocument(u) == \E d \in documents : d.user_id = u /\ d.is_indexed

FailsValidation(r) ==
    \/ r.op = "chat_stream" /\ (~r.request.has_data \/ r.request.message = <<>>)
    \/ r.op = "submit_feedback"
          /\ (r.request.message_id = NULL
               \/ r.request.rating \notin {"positive", "negative"})
    \/ r.op = "upload_document" /\ (~r.request.has_file \/ r.request.filename = <<>>)

\* C23: a chat request with no body or an empty message, a feedback request
\* with no message_id or a rating other than positive and negative, and an
\* upload with no file part or an empty filename are answered with 400, and
\* the step that answers them changes no row of the relational store
C23_RejectionWritesNothing ==
    [][(response' # response /\ FailsValidation(response'))
       => /\ response'.status = 400
          /\ UNCHANGED <<conversations, messages, documents, chunks, citations,
                         feedbacks>>]_vars

\* an upload without a file part refused after a feedback row and a Document
\* were written
C23_Witness ==
    /\ response.op = "upload_document"
    /\ response.status = 400
    /\ ~response.request.has_file
    /\ feedbacks # {}
    /\ Cardinality(documents) = 2

CountOf(t, op) == Len(CallsOf(t, {op}))

\* the turn has its answer and no call has raised
Answered(t) == t.raised \notin {"rewrite", "base_search", "user_search", "analyze",
                                "synthesize", "generate", "prepare", "slice"}
               /\ t.pc \in {"tokens", "persist", "citations", "done", "closed"}

\* C24: a turn makes each external call once.  On the simple path one
\* rewrite, one global search, a user-scoped search only with a user
\* retriever, one generation; on the advanced path one rewrite, one
\* classification, one retrieval round for the rewritten query and one per
\* sub-question explored, at most one synthesis.  Once a call has raised the
\* turn makes no other call.
C24_NoCallRetried ==
    /\ [](/\ CountOf(turn, "rewrite") <= 1
          /\ CountOf(turn, "analyze") <= 1
          /\ CountOf(turn, "synthesize") <= 1
          /\ CountOf(turn, "generate") <= 1
          /\ CountOf(turn, "user_search") <= CountOf(turn, "base_search")
          /\ CountOf(turn, "base_search") <= 1 + Len(turn.sub_questions)
          /\ CountOf(turn, "base_search") <= 1 + max_hops
          /\ \A i, j \in DOMAIN turn.calls : turn.calls[i] = turn.calls[j] => i = j
          /\ ~turn.use_advanced_rag =>
                /\ CountOf(turn, "base_search") <= 1
                /\ CountOf(turn, "analyze") = 0 /\ CountOf(turn, "synthesize") = 0
          /\ turn.use_advanced_rag => CountOf(turn, "generate") = 0
          /\ Answered(turn) =>
                /\ CountOf(turn, "rewrite") = 1
                /\ CountOf(turn, "user_search") =
                      IF turn.user_retriever THEN CountOf(turn, "base_search") ELSE 0
                /\ ~turn.use_advanced_rag =>
                      CountOf(turn, "base_search") = 1 /\ CountOf(turn, "generate") = 1
                /\ turn.use_advanced_rag =>
                      /\ CountOf(turn, "analyze") = 1
                      /\ CountOf(turn, "base_search") = 1 + turn.hop
                      /\ CountOf(turn, "synthesize") =
                            IF turn.analysis.type = "direct" THEN 0 ELSE 1)
    /\ [][turn.raised # NoneVal => turn'.calls = turn.calls]_vars

\* an advanced turn that explored two sub-questions and ended in done
C24_Witness ==
    /\ turn.pc = "closed" /\ turn.raised = NoneVal
    /\ turn.hop = 2
    /\ turn.user_retriever
    /\ CountOf(turn, "base_search") = 3
    /\ CountOf(turn, "synthesize") = 1

C26_UploadedVectorsTagged ==
    [][(docreq.op = "upload_document" /\ docreq.pc = "tag" /\ docreq'.pc # "tag")
       => \A v \in index' \ index :
             /\ v.user_id = Str(docreq.user)
             /\ v.document_id = Str(seq'.documents)
             /\ seq'.documents \notin {d.id : d \in documents}
             /\ v.user_id \notin {NoneVal, "global"}
             /\ \A a \in Users \ {docreq.user} : filter_allowed(<<v>>, a) = <<>>]_vars

\* user 2 has uploaded a PDF of two chunks: its Document is committed and
\* both vectors are in the index
C26_Witness ==
    /\ docreq.op = "upload_document" /\ docreq.pc = "done" /\ docreq.user = 2
    /\ response.status = 200
    /\ \E d \in documents : d.id = response.id /\ d.user_id = 2
    /\ Cardinality({v \in index : v.document_id = Str(response.id)}) = 2
    /\ docreq.documents = <<>>

\* The passages the step adds to the retrieved passages of the turn
NewlyRetrieved ==
    {turn'.retrieved_docs[i] :
        i \in (Len(turn.retrieved_docs) + 1)..Len(turn'.retrieved_docs)}

\* C27 as stated: once delete_document has answered a deletion of Document D
\* with success, no retrieval returns a passage whose document_id is D
C27_DeletedNeverRetrieved ==
    [][(response.op = "delete_document" /\ response.status = 200)
       => \A p \in NewlyRetrieved : p.document_id # Str(response.id)]_vars

\* C27: once delete_document has answered a deletion of Document D with
\* success and its vector-store delete did not raise, no retrieval returns a
\* passage whose document_id is D
C27_DeletedCleanlyNeverRetrieved ==
    [][(/\ response.op = "delete_document" /\ response.status = 200
        /\ LogEntry("warning", "vector_delete") \notin log)
       => \A p \in NewlyRetrieved : p.document_id # Str(response.id)]_vars

\* user 1 retrieved passages after their Document was deleted, vectors
\* included, while the turn was under way
C27_Witness ==
    /\ response.op = "delete_document" /\ response.status = 200 /\ response.id = 1
    /\ log = {}
    /\ turn.user_id = 1 /\ ~turn.user_retriever
    /\ turn.pc \in {"generate", "analyze", "hop", "synth"}
    /\ Len(turn.retrieved_docs) > 0

\* C28: whenever analyze_query_complexity returns type multi_hop its
\* sub_questions is a list of strings, and the loop of multi_hop_reasoning
\* does not raise on its shape
C28_SubQuestionsAreAList ==
    turn.analysis.type = "multi_hop" =>
        /\ turn.analysis.shape = "list"
        /\ turn.raised # "slice"

\* The user whose conversation holds the Message of Citation c
CitingUser(c) ==
    LET m == CHOOSE x \in messages : x.id = c.message_id
    IN  (CHOOSE k \in conversations : k.id = m.conversation_id).user_id

\* C29: the Document of a Citation, and the Document of the chunk of a
\* Citation, belong to the user whose conversation the Citation is in
C29_CitationsOfOwnDocuments ==
    \A c \in citations :
        /\ \A d \in documents : d.id = c.document_id => d.user_id = CitingUser(c)
        /\ \A k \in chunks :
              k.id = c.chunk_id =>
                  \A d \in documents : d.id = k.document_id => d.user_id = CitingUser(c)

\* a turn of user 2 has committed its Citations, none of which points at the
\* Document of user 1, and a turn of user 1 would have cited it
C29_Witness ==
    /\ turn.user_id = 2 /\ turn.pc = "closed" /\ turn.raised = NoneVal
    /\ Cardinality(citations) >= 2
    /\ \E d \in documents : d.user_id = 1
    /\ \A c \in citations : c.document_id = NULL

MessagesIn(msgs, cid, role) == {m \in msgs : m.conversation_id = cid /\ m.role = role}

====
